---- MODULE Spec2Model ----
(***************************************************************************)
(* Project-scenario overlay of idu_api (urban_api): the scenario-local     *)
(* tables, the scenario join table and the handlers that write them        *)
(* (project bootstrap, promotion from a regional scenario, put / patch /   *)
(* delete of geometries and physical objects), together with the merged    *)
(* read of geometries.                                                     *)
(*                                                                         *)
(* Tables are sets of rows; the scenario join table is a bag of rows (its  *)
(* serial urban_object_id only distinguishes equal rows).  NULL is 0 (all  *)
(* ids start at 1).  A geometry is the set of grid cells it covers;        *)
(* ST_Within is inclusion, ST_Intersects a common cell, ST_Intersection    *)
(* the intersection, ST_Area the summed area of the cells.                 *)
(***************************************************************************)
EXTENDS Integers, FiniteSets, Sequences, Bags, TLC

\* ------------------------------------------------------------------------
\* Bounds of the model
\* ------------------------------------------------------------------------
MaxProjects == 2

MaxScenarios == 4

\* scenarios of regional projects that exist at one time
MaxRegionalScenarios == 2

MaxGeometries == 2

MaxPhysicalObjects == 1

MaxUrbanObjects == 6

\* ------------------------------------------------------------------------
\* Values
\* ------------------------------------------------------------------------
NULL == 0

NULLGEOM == {}

\* the absent user of an unauthenticated request (user is None)
NoUser == [id |-> "", is_superuser |-> FALSE]

\* callers: the identity handed to every boundary call
Callers == { [id |-> "u1", is_superuser |-> FALSE], [id |-> "u2", is_superuser |-> FALSE] }

\* area of one grid cell (cell 3 is a sliver next to cell 2)
CellArea(c) == IF c = 3 THEN 1 ELSE 100

\* territories_data: territory_id -> parent_id
territories_data == (1 :> NULL) @@ (2 :> 1)

\* physical_object_types_dict: type id -> name class and function
physical_object_types_dict ==
    (1 :> [is_building_name |-> FALSE, physical_object_function_id |-> 1]) @@
    (2 :> [is_building_name |-> TRUE, physical_object_function_id |-> 2])

\* the public dataset the deployment is seeded with; the ids of the public
\* tables and of the scenario tables come from different sequences
InitGeometries ==
    { [object_geometry_id |-> 1, territory_id |-> 2, geometry |-> {1}, address |-> "a0"],
      [object_geometry_id |-> 2, territory_id |-> 2, geometry |-> {2, 3}, address |-> "a0"] }

InitPhysicalObjects ==
    { [physical_object_id |-> 2, physical_object_type_id |-> 1, name |-> "n0"],
      [physical_object_id |-> 3, physical_object_type_id |-> 2, name |-> "n0"] }

InitServices == { [service_id |-> 1] }

InitUrbanObjects ==
    { [urban_object_id |-> 1, object_geometry_id |-> 1, physical_object_id |-> 2, service_id |-> 1],
      [urban_object_id |-> 2, object_geometry_id |-> 1, physical_object_id |-> 3, service_id |-> NULL],
      [urban_object_id |-> 3, object_geometry_id |-> 2, physical_object_id |-> 2, service_id |-> NULL] }

\* inputs of the calls
ProjectMasks == { {1, 2}, {1, 3} }

NewAddresses == { "a1" }

NewGeometries == { {1} }

PublicFlags == { FALSE }

NewNames == { "n1" }

TypeInputs == { 1, 9 }

FunctionInputs == { 1, 2 }

TerritoryInputs == { 2, 9 }

ProjectTerritories == { 1 }

ProjectOwners == { "u1" }

\* ids a request may name: those of the public rows and of the scenario rows
ObjectGeometryIds == { g.object_geometry_id : g \in InitGeometries } \cup 1..MaxGeometries

PhysicalObjectIds == { po.physical_object_id : po \in InitPhysicalObjects } \cup 1..MaxPhysicalObjects

VARIABLES
    object_geometries_data,            \* public.object_geometries_data
    physical_objects_data,             \* public.physical_objects_data
    services_data,                     \* public.services_data
    urban_objects_data,                \* public.urban_objects_data
    projects_data,                     \* user_projects.projects_data
    projects_territory_data,           \* user_projects.projects_territory_data
    scenarios_data,                    \* user_projects.scenarios_data
    projects_object_geometries_data,   \* user_projects.object_geometries_data
    projects_physical_objects_data,    \* user_projects.physical_objects_data
    projects_services_data,            \* user_projects.services_data
    projects_urban_objects_data,       \* user_projects.urban_objects_data (bag)
    seq_project,                       \* last value of the project id sequence
    seq_scenario,                      \* last value of the scenario id sequence
    seq_geometry,                      \* last value of the scenario geometry id sequence
    seq_physical,                      \* last value of the scenario physical object id sequence
    committed,                         \* the user_projects tables as of the last commit
    pc,                                \* statement the call in progress has reached
    call,                              \* arguments of the call in progress
    log,                               \* statements the call in progress has completed
    response                           \* how the last call ended

public_vars == <<object_geometries_data, physical_objects_data, services_data, urban_objects_data>>

project_vars == <<projects_data, projects_territory_data, scenarios_data>>

local_vars == <<projects_object_geometries_data, projects_physical_objects_data,
                projects_services_data, projects_urban_objects_data>>

seq_vars == <<seq_project, seq_scenario, seq_geometry, seq_physical>>

\* a call in progress on its connection
call_vars == <<pc, call, log, response>>

vars == <<public_vars, project_vars, local_vars, seq_vars, committed, call_vars>>

\* ------------------------------------------------------------------------
\* Geometry and row helpers
\* ------------------------------------------------------------------------
RECURSIVE ST_Area(_)
ST_Area(g) == IF g = {} THEN 0
              ELSE LET c == CHOOSE x \in g : TRUE IN CellArea(c) + ST_Area(g \ {c})

ST_Intersection(a, b) == a \cap b

\* a NULL argument makes the predicate NULL, which a WHERE clause rejects
ST_Intersects(a, b) == a # NULLGEOM /\ b # NULLGEOM /\ a \cap b # {}

ST_Within(a, b) == a # NULLGEOM /\ b # NULLGEOM /\ a \subseteq b

\* rows of a bag that satisfy Test
BagFilter(B, Test(_)) == [r \in {x \in DOMAIN B : Test(x)} |-> B[r]]

\* number of rows of a bag that satisfy Test
BagCount(B, Test(_)) == BagCardinality(BagFilter(B, Test))

\* the bag holding one copy of every element of a set
RowsOf(S) == SetToBag(S)

JoinRow(s, pub_uo, g, p, svc, pub_g, pub_p, pub_svc) ==
    [scenario_id |-> s, public_urban_object_id |-> pub_uo,
     object_geometry_id |-> g, physical_object_id |-> p, service_id |-> svc,
     public_object_geometry_id |-> pub_g, public_physical_object_id |-> pub_p,
     public_service_id |-> pub_svc]

PublicGeometry(id) == CHOOSE g \in object_geometries_data : g.object_geometry_id = id

ProjectOf(scenario_id) ==
    LET s == CHOOSE x \in scenarios_data : x.scenario_id = scenario_id
    IN CHOOSE p \in projects_data : p.project_id = s.project_id

\* select(projects_territory_data.c.geometry).where(project_id == ...) as a scalar subquery
project_geometry(project_id) ==
    IF project_id \in DOMAIN projects_territory_data
    THEN projects_territory_data[project_id] ELSE NULLGEOM

\* public_urban_object_id values held by the join rows of a scenario
public_urban_object_ids(scenario_id) ==
    { r.public_urban_object_id : r \in
        { x \in DOMAIN projects_urban_objects_data :
            x.scenario_id = scenario_id /\ x.public_urban_object_id # NULL } }

\* the user_projects tables as the connection of the call sees them
Database ==
    [projects_data |-> projects_data,
     projects_territory_data |-> projects_territory_data,
     scenarios_data |-> scenarios_data,
     projects_object_geometries_data |-> projects_object_geometries_data,
     projects_physical_objects_data |-> projects_physical_objects_data,
     projects_services_data |-> projects_services_data,
     projects_urban_objects_data |-> projects_urban_objects_data]

\* no call in progress
NoCall == [op |-> "none"]

Init ==
    /\ object_geometries_data = InitGeometries
    /\ physical_objects_data = InitPhysicalObjects
    /\ services_data = InitServices
    /\ urban_objects_data = InitUrbanObjects
    /\ projects_data = {}
    /\ projects_territory_data = <<>>
    /\ scenarios_data = {}
    /\ projects_object_geometries_data = {}
    /\ projects_physical_objects_data = {}
    /\ projects_services_data = {}
    /\ projects_urban_objects_data = EmptyBag
    /\ seq_project = 0
    /\ seq_scenario = 0
    /\ seq_geometry = 0
    /\ seq_physical = 0
    /\ committed = Database
    /\ pc = "idle"
    /\ call = NoCall
    /\ log = <<>>
    /\ response = "none"

\* ------------------------------------------------------------------------
\* Outcomes of the checks that precede the writes of a call.  A call whose
\* outcome is not "ok" raises before its first write: it commits nothing and
\* leaves every table as it was.
\* ------------------------------------------------------------------------
\* scalar_one_or_none() over n result rows
ScalarOutcome(n) == IF n = 0 THEN "none" ELSE IF n = 1 THEN "one" ELSE "MultipleResultsFound"

\* ------------------------------------------------------------------------
\* Foreign keys of the scenario join table (ON DELETE CASCADE)
\* ------------------------------------------------------------------------
CascadeLocalDelete(join_rows, geometry_ids, physical_ids, service_ids) ==
    BagFilter(join_rows, LAMBDA r :
        /\ r.object_geometry_id \notin geometry_ids
        /\ r.physical_object_id \notin physical_ids
        /\ r.service_id \notin service_ids)

CascadeScenarioDelete(join_rows, scenario_ids) ==
    BagFilter(join_rows, LAMBDA r : r.scenario_id \notin scenario_ids)

\* ------------------------------------------------------------------------
\* Project lifecycle
\* ------------------------------------------------------------------------
check_project(project_id, user, to_edit, allow_regional) ==
    IF \A p \in projects_data : p.project_id # project_id THEN "NotFound"
    ELSE LET result == CHOOSE p \in projects_data : p.project_id = project_id IN
         IF user = NoUser /\ ~result.public THEN "AccessDenied"
         ELSE IF /\ user # NoUser
                 /\ result.user_id # user.id
                 /\ (~result.public \/ to_edit)
                 /\ ~user.is_superuser THEN "AccessDenied"
         ELSE IF result.is_regional /\ ~allow_regional THEN "NotAllowedInRegionalProject"
         ELSE "ok"

\* ids of the regional base scenarios of a territory (parent lookup)
RegionalBaseScenarios(territory_id) ==
    { s.scenario_id : s \in
        { x \in scenarios_data :
            /\ x.is_based
            /\ \E p \in projects_data :
                  p.project_id = x.project_id /\ p.territory_id = territory_id /\ p.is_regional } }

\* public geometries that insert_intersecting_geometries crops with the mask
objects_intersecting(mask) ==
    { g.object_geometry_id : g \in
        { x \in object_geometries_data :
            /\ ST_Intersects(x.geometry, mask)
            /\ ~ST_Within(x.geometry, mask)
            /\ 100 * ST_Area(ST_Intersection(x.geometry, mask)) >= ST_Area(x.geometry)
            /\ \E uo \in urban_objects_data, po \in physical_objects_data :
                  /\ uo.object_geometry_id = x.object_geometry_id
                  /\ po.physical_object_id = uo.physical_object_id
                  /\ po.physical_object_type_id \in DOMAIN physical_object_types_dict
                  /\ ~physical_object_types_dict[po.physical_object_type_id].is_building_name } }

\* position of an id in the ascending order of a set of ids (1-based)
Rank(id, ids) == Cardinality({ x \in ids : x <= id })

\* rows inserted by insert_intersecting_geometries, numbered from first_id
cropped_geometries(mask, first_id) ==
    LET ids == objects_intersecting(mask) IN
    { [object_geometry_id |-> first_id + Rank(g.object_geometry_id, ids) - 1,
       public_object_geometry_id |-> g.object_geometry_id,
       territory_id |-> g.territory_id,
       geometry |-> ST_Intersection(g.geometry, mask),
       address |-> g.address] : g \in { x \in object_geometries_data : x.object_geometry_id \in ids } }

\* base_query of insert_urban_objects over the given scenario geometry table
base_query(local_geometries, id_mapping_keys) ==
    { <<uo, lg>> \in urban_objects_data \X local_geometries :
        /\ uo.object_geometry_id = lg.public_object_geometry_id
        /\ uo.object_geometry_id \in id_mapping_keys }

\* faulty variant: the detailed rows lack public_physical_object_id
insert_urban_objects_without_physical(scenario_id, local_geometries, id_mapping_keys) ==
    IF id_mapping_keys = {} THEN EmptyBag
    ELSE LET base == RowsOf(base_query(local_geometries, id_mapping_keys)) IN
         BagOfAll(LAMBDA b : JoinRow(scenario_id, b[1].urban_object_id,
                                     NULL, NULL, NULL, NULL, NULL, NULL), base)
         (+)
         BagOfAll(LAMBDA b : JoinRow(scenario_id, NULL, b[2].object_geometry_id, NULL, NULL,
                                     NULL, NULL, b[1].service_id), base)

\* faulty variant: only the hiding rows are inserted, the crops get no join row
insert_urban_objects_hiding_only(scenario_id, local_geometries, id_mapping_keys) ==
    IF id_mapping_keys = {} THEN EmptyBag
    ELSE LET base == RowsOf(base_query(local_geometries, id_mapping_keys)) IN
         BagOfAll(LAMBDA b : JoinRow(scenario_id, b[1].urban_object_id,
                                     NULL, NULL, NULL, NULL, NULL, NULL), base)

\* join rows inserted by insert_urban_objects
insert_urban_objects(scenario_id, local_geometries, id_mapping_keys) ==
    IF id_mapping_keys = {} THEN EmptyBag
    ELSE LET base == RowsOf(base_query(local_geometries, id_mapping_keys)) IN
         BagOfAll(LAMBDA b : JoinRow(scenario_id, b[1].urban_object_id,
                                     NULL, NULL, NULL, NULL, NULL, NULL), base)
         (+)
         BagOfAll(LAMBDA b : JoinRow(scenario_id, NULL, b[2].object_geometry_id, NULL, NULL,
                                     NULL, b[1].physical_object_id, b[1].service_id), base)

\* add_project_to_db for a regional project
add_regional_project(user, territory_id, public) ==
    /\ seq_project < MaxProjects
    /\ projects_data' = projects_data \cup
          { [project_id |-> seq_project + 1, user_id |-> user.id, is_regional |-> TRUE,
             public |-> public, territory_id |-> territory_id] }
    /\ seq_project' = seq_project + 1
    /\ UNCHANGED <<public_vars, projects_territory_data, scenarios_data, local_vars,
                   seq_scenario, seq_geometry, seq_physical>>

\* the checks of add_project_to_db for an ordinary project, in order
add_project_outcome(territory_id) ==
    IF territory_id \notin DOMAIN territories_data THEN "NotFound"
    ELSE IF ScalarOutcome(Cardinality(RegionalBaseScenarios(territory_id))) = "none"
    THEN "NotFoundByParams"
    ELSE IF ScalarOutcome(Cardinality(RegionalBaseScenarios(territory_id))) = "MultipleResultsFound"
    THEN "MultipleResultsFound"
    ELSE "ok"

\* add_project_to_db for an ordinary project
add_ordinary_project(user, territory_id, public, mask) ==
    LET project_id == seq_project + 1
        scenario_id == seq_scenario + 1
        parents == RegionalBaseScenarios(territory_id)
        crops == cropped_geometries(mask, seq_geometry + 1)
        id_mapping_keys == { c.public_object_geometry_id : c \in crops }
        new_geometries == projects_object_geometries_data \cup crops
        new_rows == insert_urban_objects(scenario_id, new_geometries, id_mapping_keys)
    IN
    /\ seq_project < MaxProjects
    /\ seq_scenario < MaxScenarios
    /\ seq_geometry + Cardinality(crops) <= MaxGeometries
    /\ BagCardinality(projects_urban_objects_data (+) new_rows) <= MaxUrbanObjects
    /\ add_project_outcome(territory_id) = "ok"
    /\  /\ projects_data' = projects_data \cup
              { [project_id |-> project_id, user_id |-> user.id, is_regional |-> FALSE,
                 public |-> public, territory_id |-> territory_id] }
        /\ projects_territory_data' = projects_territory_data @@ (project_id :> mask)
        /\ scenarios_data' = scenarios_data \cup
              { [scenario_id |-> scenario_id, project_id |-> project_id, is_based |-> TRUE,
                 parent_id |-> CHOOSE s \in parents : TRUE] }
        /\ projects_object_geometries_data' = new_geometries
        /\ projects_urban_objects_data' = projects_urban_objects_data (+) new_rows
        /\ seq_project' = project_id
        /\ seq_scenario' = scenario_id
        /\ seq_geometry' = seq_geometry + Cardinality(crops)
        /\ UNCHANGED <<public_vars, projects_physical_objects_data, projects_services_data,
                       seq_physical>>

add_project ==
    \E user \in Callers, public \in PublicFlags :
        /\ user.id \in ProjectOwners
        /\ \/ \E territory_id \in ProjectTerritories :
                 add_regional_project(user, territory_id, public)
           \/ \E territory_id \in ProjectTerritories \cup TerritoryInputs, mask \in ProjectMasks :
                 add_ordinary_project(user, territory_id, public, mask)

\* add_scenario for a regional project: its first scenario is its base scenario
add_scenario ==
    \E project \in projects_data, user \in Callers :
        /\ project.is_regional
        /\ project.user_id = user.id
        /\ seq_scenario < MaxScenarios
        /\ Cardinality({ s \in scenarios_data : ProjectOf(s.scenario_id).is_regional })
              < MaxRegionalScenarios
        /\ scenarios_data' = scenarios_data \cup
              { [scenario_id |-> seq_scenario + 1, project_id |-> project.project_id,
                 is_based |-> \A s \in scenarios_data : s.project_id # project.project_id,
                 parent_id |-> NULL] }
        /\ seq_scenario' = seq_scenario + 1
        /\ UNCHANGED <<public_vars, projects_data, projects_territory_data, local_vars,
                       seq_project, seq_geometry, seq_physical>>

\* ------------------------------------------------------------------------
\* Geometries of a scenario: put, patch, delete
\* ------------------------------------------------------------------------
\* value of a request field, or the stored value when the request leaves it unset
Given(input, field, stored) == IF field \in input.fields_set THEN input[field] ELSE stored

\* rows of the shadow check: join rows of the scenario joined with the scenario
\* geometries whose public_object_geometry_id is the requested id
geometry_shadow_rows(scenario_id, object_geometry_id) ==
    BagCount(projects_urban_objects_data, LAMBDA r :
        /\ r.scenario_id = scenario_id
        /\ \E lg \in projects_object_geometries_data :
              /\ lg.object_geometry_id = r.object_geometry_id
              /\ lg.public_object_geometry_id = object_geometry_id)

\* faulty variant: only the first public urban object of the geometry is taken
geometry_urban_objects_first(scenario_id, project_id, object_geometry_id) ==
    LET found == { uo \in urban_objects_data :
                     /\ uo.object_geometry_id = object_geometry_id
                     /\ uo.urban_object_id \notin public_urban_object_ids(scenario_id)
                     /\ \E g \in object_geometries_data :
                           /\ g.object_geometry_id = uo.object_geometry_id
                           /\ ST_Within(g.geometry, project_geometry(project_id)) }
    IN IF found = {} THEN {}
       ELSE { CHOOSE uo \in found : \A other \in found :
                  uo.urban_object_id <= other.urban_object_id }

\* public urban objects of a geometry that the scenario does not hide yet and
\* whose geometry lies within the project territory
geometry_urban_objects(scenario_id, project_id, object_geometry_id) ==
    { uo \in urban_objects_data :
        /\ uo.object_geometry_id = object_geometry_id
        /\ uo.urban_object_id \notin public_urban_object_ids(scenario_id)
        /\ \E g \in object_geometries_data :
              /\ g.object_geometry_id = uo.object_geometry_id
              /\ ST_Within(g.geometry, project_geometry(project_id)) }

\* faulty variant: the public urban objects are replaced but not hidden
hiding_rows_omitted(scenario_id, urban_objects) == EmptyBag

\* the public_urban_object_id rows that hide a set of public urban objects
hiding_rows(scenario_id, urban_objects) ==
    BagOfAll(LAMBDA uo : JoinRow(scenario_id, uo.urban_object_id,
                                 NULL, NULL, NULL, NULL, NULL, NULL), RowsOf(urban_objects))

\* faulty variant: the update sets the local id and leaves the public pointer
redirect_geometry_keeping_pointer(join_rows, object_geometry_id, updated_object_geometry_id) ==
    BagOfAll(LAMBDA r :
        IF r.public_object_geometry_id = object_geometry_id
        THEN [r EXCEPT !.object_geometry_id = updated_object_geometry_id]
        ELSE r, join_rows)

\* update(projects_urban_objects_data).where(public_object_geometry_id == id)
redirect_geometry(join_rows, object_geometry_id, updated_object_geometry_id) ==
    BagOfAll(LAMBDA r :
        IF r.public_object_geometry_id = object_geometry_id
        THEN [r EXCEPT !.object_geometry_id = updated_object_geometry_id,
                       !.public_object_geometry_id = NULL]
        ELSE r, join_rows)

\* faulty variant: the writes are not preceded by the shadow check
write_object_geometry_outcome_unchecked(input, scenario_id, object_geometry_id, is_scenario_object, user_id) ==
    IF \A s \in scenarios_data : s.scenario_id # scenario_id THEN "NotFound"
    ELSE IF ProjectOf(scenario_id).user_id # user_id THEN "AccessDenied"
    ELSE IF /\ is_scenario_object
            /\ \A lg \in projects_object_geometries_data : lg.object_geometry_id # object_geometry_id
    THEN "NotFound"
    ELSE IF /\ ~is_scenario_object
            /\ \A g \in object_geometries_data : g.object_geometry_id # object_geometry_id
    THEN "NotFound"
    ELSE IF "territory_id" \in input.fields_set /\ input.territory_id \notin DOMAIN territories_data
    THEN "NotFound"
    ELSE "ok"

\* the checks of put_object_geometry_to_db / patch_object_geometry_to_db, in order
write_object_geometry_outcome(input, scenario_id, object_geometry_id, is_scenario_object, user_id) ==
    IF \A s \in scenarios_data : s.scenario_id # scenario_id THEN "NotFound"
    ELSE IF ProjectOf(scenario_id).user_id # user_id THEN "AccessDenied"
    ELSE IF /\ is_scenario_object
            /\ \A lg \in projects_object_geometries_data : lg.object_geometry_id # object_geometry_id
    THEN "NotFound"
    ELSE IF /\ ~is_scenario_object
            /\ \A g \in object_geometries_data : g.object_geometry_id # object_geometry_id
    THEN "NotFound"
    ELSE IF /\ ~is_scenario_object
            /\ ScalarOutcome(geometry_shadow_rows(scenario_id, object_geometry_id))
                   = "MultipleResultsFound"
    THEN "MultipleResultsFound"
    ELSE IF /\ ~is_scenario_object
            /\ ScalarOutcome(geometry_shadow_rows(scenario_id, object_geometry_id)) = "one"
    THEN "AlreadyExists"
    ELSE IF "territory_id" \in input.fields_set /\ input.territory_id \notin DOMAIN territories_data
    THEN "NotFound"
    ELSE "ok"

\* put_object_geometry_to_db / patch_object_geometry_to_db
write_object_geometry(input, scenario_id, object_geometry_id, is_scenario_object, user_id) ==
    /\ write_object_geometry_outcome(input, scenario_id, object_geometry_id,
                                        is_scenario_object, user_id) = "ok"
    /\ LET project == ProjectOf(scenario_id) IN
       IF is_scenario_object
       THEN LET old == CHOOSE lg \in projects_object_geometries_data :
                           lg.object_geometry_id = object_geometry_id
                new == [old EXCEPT !.territory_id = Given(input, "territory_id", old.territory_id),
                                   !.geometry = Given(input, "geometry", old.geometry),
                                   !.address = Given(input, "address", old.address)]
            IN
            /\ projects_object_geometries_data' =
                   (projects_object_geometries_data \ {old}) \cup {new}
            /\ UNCHANGED <<public_vars, project_vars, projects_physical_objects_data,
                           projects_services_data, projects_urban_objects_data, seq_vars>>
       ELSE LET requested_geometry == PublicGeometry(object_geometry_id)
                updated_object_geometry_id == seq_geometry + 1
                shadow == [object_geometry_id |-> updated_object_geometry_id,
                           public_object_geometry_id |-> object_geometry_id,
                           territory_id |-> Given(input, "territory_id", requested_geometry.territory_id),
                           geometry |-> Given(input, "geometry", requested_geometry.geometry),
                           address |-> Given(input, "address", requested_geometry.address)]
                urban_objects ==
                    geometry_urban_objects(scenario_id, project.project_id, object_geometry_id)
                replacements ==
                    BagOfAll(LAMBDA uo : JoinRow(scenario_id, NULL, updated_object_geometry_id,
                                                 NULL, NULL, NULL, uo.physical_object_id,
                                                 uo.service_id), RowsOf(urban_objects))
                inserted == projects_urban_objects_data
                               (+) hiding_rows(scenario_id, urban_objects) (+) replacements
            IN
            /\ seq_geometry < MaxGeometries
            /\ BagCardinality(inserted) <= MaxUrbanObjects
            /\ projects_object_geometries_data' = projects_object_geometries_data \cup {shadow}
            /\ projects_urban_objects_data' =
                   redirect_geometry(inserted, object_geometry_id, updated_object_geometry_id)
            /\ seq_geometry' = updated_object_geometry_id
            /\ UNCHANGED <<public_vars, project_vars, projects_physical_objects_data,
                           projects_services_data, seq_project, seq_scenario, seq_physical>>

GeometryPutInputs ==
    { [fields_set |-> {"territory_id", "geometry", "address"},
       territory_id |-> t, geometry |-> g, address |-> a] :
         t \in TerritoryInputs, g \in NewGeometries, a \in NewAddresses }

GeometryPatchInputs ==
    { [fields_set |-> f, territory_id |-> NULL, geometry |-> NULLGEOM, address |-> a] :
         f \in { {"address"} }, a \in NewAddresses }

put_object_geometry ==
    \E input \in GeometryPutInputs, scenario_id \in 1..MaxScenarios,
       object_geometry_id \in ObjectGeometryIds, is_scenario_object \in BOOLEAN,
       user \in Callers :
        write_object_geometry(input, scenario_id, object_geometry_id,
                              is_scenario_object, user.id)

patch_object_geometry ==
    \E input \in GeometryPatchInputs, scenario_id \in 1..MaxScenarios,
       object_geometry_id \in ObjectGeometryIds, is_scenario_object \in BOOLEAN,
       user \in Callers :
        write_object_geometry(input, scenario_id, object_geometry_id,
                              is_scenario_object, user.id)

\* faulty variant: the requested id is looked up in both geometry tables
delete_object_geometry_outcome_either_table(scenario_id, object_geometry_id, is_scenario_object, user_id) ==
    IF \A s \in scenarios_data : s.scenario_id # scenario_id THEN "NotFound"
    ELSE IF ProjectOf(scenario_id).user_id # user_id THEN "AccessDenied"
    ELSE IF /\ \A lg \in projects_object_geometries_data : lg.object_geometry_id # object_geometry_id
            /\ \A g \in object_geometries_data : g.object_geometry_id # object_geometry_id
    THEN "NotFound"
    ELSE "ok"

\* the checks of delete_object_geometry_in_db, in order
delete_object_geometry_outcome(scenario_id, object_geometry_id, is_scenario_object, user_id) ==
    IF \A s \in scenarios_data : s.scenario_id # scenario_id THEN "NotFound"
    ELSE IF ProjectOf(scenario_id).user_id # user_id THEN "AccessDenied"
    ELSE IF /\ is_scenario_object
            /\ \A lg \in projects_object_geometries_data : lg.object_geometry_id # object_geometry_id
    THEN "NotFound"
    ELSE IF /\ ~is_scenario_object
            /\ \A g \in object_geometries_data : g.object_geometry_id # object_geometry_id
    THEN "NotFound"
    ELSE "ok"

\* faulty variant: the delete statement names the public join table
delete_public_object_geometry_in_public(scenario_id, object_geometry_id) ==
    /\ \E uo \in urban_objects_data : uo.object_geometry_id = object_geometry_id
    /\ urban_objects_data' =
           { uo \in urban_objects_data : uo.object_geometry_id # object_geometry_id }
    /\ UNCHANGED <<object_geometries_data, physical_objects_data, services_data,
                   project_vars, local_vars, seq_vars>>

\* delete_object_geometry_in_db for a public geometry: its pointer rows go, and
\* its public urban objects still shown by the scenario are hidden
delete_public_object_geometry(scenario_id, object_geometry_id) ==
    LET project == ProjectOf(scenario_id)
        remaining == BagFilter(projects_urban_objects_data, LAMBDA r :
                         r.public_object_geometry_id # object_geometry_id)
        \* the subqueries of the second statement see the rows left by the first
        hidden == { r.public_urban_object_id : r \in
                      { x \in DOMAIN remaining :
                          x.scenario_id = scenario_id /\ x.public_urban_object_id # NULL } }
        urban_objects ==
            { uo \in urban_objects_data :
                /\ uo.object_geometry_id = object_geometry_id
                /\ uo.urban_object_id \notin hidden
                /\ \E g \in object_geometries_data :
                      /\ g.object_geometry_id = uo.object_geometry_id
                      /\ ST_Within(g.geometry, project_geometry(project.project_id)) }
        result == remaining (+) hiding_rows(scenario_id, urban_objects)
    IN
    /\ BagCardinality(result) <= MaxUrbanObjects
    /\ projects_urban_objects_data' = result
    /\ UNCHANGED <<public_vars, project_vars, projects_object_geometries_data,
                   projects_physical_objects_data, projects_services_data, seq_vars>>

\* delete_object_geometry_in_db for a scenario geometry
delete_scenario_object_geometry(object_geometry_id) ==
    /\ projects_object_geometries_data' =
           { lg \in projects_object_geometries_data : lg.object_geometry_id # object_geometry_id }
    /\ projects_urban_objects_data' =
           CascadeLocalDelete(projects_urban_objects_data, {object_geometry_id}, {}, {})
    /\ UNCHANGED <<public_vars, project_vars, projects_physical_objects_data,
                   projects_services_data, seq_vars>>

\* delete_object_geometry_in_db as one call
delete_object_geometry_call(scenario_id, object_geometry_id, is_scenario_object, user_id) ==
    /\ delete_object_geometry_outcome(scenario_id, object_geometry_id,
                                      is_scenario_object, user_id) = "ok"
    /\ IF is_scenario_object
       THEN delete_scenario_object_geometry(object_geometry_id)
       ELSE delete_public_object_geometry(scenario_id, object_geometry_id)

delete_object_geometry ==
    \E scenario_id \in 1..MaxScenarios, object_geometry_id \in ObjectGeometryIds,
       is_scenario_object \in BOOLEAN, user \in Callers :
        delete_object_geometry_call(scenario_id, object_geometry_id,
                                    is_scenario_object, user.id)

\* ------------------------------------------------------------------------
\* Physical objects of a scenario: put, patch, delete, add, bulk replace
\* ------------------------------------------------------------------------
PublicPhysicalObject(id) == CHOOSE po \in physical_objects_data : po.physical_object_id = id

\* rows of the shadow check: join rows of the scenario joined with the scenario
\* physical objects whose public_physical_object_id is the requested id
physical_shadow_rows(scenario_id, physical_object_id) ==
    BagCount(projects_urban_objects_data, LAMBDA r :
        /\ r.scenario_id = scenario_id
        /\ \E lp \in projects_physical_objects_data :
              /\ lp.physical_object_id = r.physical_object_id
              /\ lp.public_physical_object_id = physical_object_id)

\* public urban objects of a physical object that the scenario does not hide yet
\* and whose geometry lies within the project territory
physical_urban_objects(hidden, project_id, physical_object_id) ==
    { uo \in urban_objects_data :
        /\ uo.physical_object_id = physical_object_id
        /\ uo.urban_object_id \notin hidden
        /\ \E g \in object_geometries_data :
              /\ g.object_geometry_id = uo.object_geometry_id
              /\ ST_Within(g.geometry, project_geometry(project_id)) }

\* faulty variant: the join rows that point at the public physical object
\* are deleted instead of redirected
redirect_physical_deleting(join_rows, physical_object_id, updated_physical_object_id) ==
    [ r \in { x \in DOMAIN join_rows : x.public_physical_object_id # physical_object_id } |->
        join_rows[r] ]

\* update(projects_urban_objects_data).where(public_physical_object_id == id)
redirect_physical(join_rows, physical_object_id, updated_physical_object_id) ==
    BagOfAll(LAMBDA r :
        IF r.public_physical_object_id = physical_object_id
        THEN [r EXCEPT !.physical_object_id = updated_physical_object_id,
                       !.public_physical_object_id = NULL]
        ELSE r, join_rows)

\* the checks of put_physical_object_to_db / patch_physical_object_to_db, in order
write_physical_object_outcome(input, scenario_id, physical_object_id, is_scenario_object, user_id) ==
    IF \A s \in scenarios_data : s.scenario_id # scenario_id THEN "NotFound"
    ELSE IF ProjectOf(scenario_id).user_id # user_id THEN "AccessDenied"
    ELSE IF /\ is_scenario_object
            /\ \A lp \in projects_physical_objects_data : lp.physical_object_id # physical_object_id
    THEN "NotFound"
    ELSE IF /\ ~is_scenario_object
            /\ \A po \in physical_objects_data : po.physical_object_id # physical_object_id
    THEN "NotFound"
    ELSE IF /\ ~is_scenario_object
            /\ ScalarOutcome(physical_shadow_rows(scenario_id, physical_object_id))
                   = "MultipleResultsFound"
    THEN "MultipleResultsFound"
    ELSE IF /\ ~is_scenario_object
            /\ ScalarOutcome(physical_shadow_rows(scenario_id, physical_object_id)) = "one"
    THEN "AlreadyExists"
    ELSE IF /\ "physical_object_type_id" \in input.fields_set
            /\ input.physical_object_type_id \notin DOMAIN physical_object_types_dict
    THEN "NotFound"
    ELSE "ok"

\* put_physical_object_to_db / patch_physical_object_to_db
write_physical_object(input, scenario_id, physical_object_id, is_scenario_object, user_id) ==
    /\ write_physical_object_outcome(input, scenario_id, physical_object_id,
                                        is_scenario_object, user_id) = "ok"
    /\ LET project == ProjectOf(scenario_id) IN
       IF is_scenario_object
       THEN LET old == CHOOSE lp \in projects_physical_objects_data :
                           lp.physical_object_id = physical_object_id
                new == [old EXCEPT
                           !.physical_object_type_id =
                               Given(input, "physical_object_type_id", old.physical_object_type_id),
                           !.name = Given(input, "name", old.name)]
            IN
            /\ projects_physical_objects_data' =
                   (projects_physical_objects_data \ {old}) \cup {new}
            /\ UNCHANGED <<public_vars, project_vars, projects_object_geometries_data,
                           projects_services_data, projects_urban_objects_data, seq_vars>>
       ELSE LET requested_physical_object == PublicPhysicalObject(physical_object_id)
                updated_physical_object_id == seq_physical + 1
                shadow == [physical_object_id |-> updated_physical_object_id,
                           public_physical_object_id |-> physical_object_id,
                           physical_object_type_id |->
                               Given(input, "physical_object_type_id",
                                     requested_physical_object.physical_object_type_id),
                           name |-> Given(input, "name", requested_physical_object.name)]
                urban_objects ==
                    physical_urban_objects(public_urban_object_ids(scenario_id),
                                           project.project_id, physical_object_id)
                replacements ==
                    BagOfAll(LAMBDA uo : JoinRow(scenario_id, NULL, NULL,
                                                 updated_physical_object_id, NULL,
                                                 uo.object_geometry_id, NULL,
                                                 uo.service_id), RowsOf(urban_objects))
                inserted == projects_urban_objects_data
                               (+) hiding_rows(scenario_id, urban_objects) (+) replacements
            IN
            /\ seq_physical < MaxPhysicalObjects
            /\ BagCardinality(inserted) <= MaxUrbanObjects
            /\ projects_physical_objects_data' = projects_physical_objects_data \cup {shadow}
            /\ projects_urban_objects_data' =
                   redirect_physical(inserted, physical_object_id, updated_physical_object_id)
            /\ seq_physical' = updated_physical_object_id
            /\ UNCHANGED <<public_vars, project_vars, projects_object_geometries_data,
                           projects_services_data, seq_project, seq_scenario, seq_geometry>>

PhysicalPutInputs ==
    { [fields_set |-> {"physical_object_type_id", "name"},
       physical_object_type_id |-> t, name |-> n] : t \in TypeInputs, n \in NewNames }

PhysicalPatchInputs ==
    { [fields_set |-> f, physical_object_type_id |-> NULL, name |-> n] :
         f \in { {"name"} }, n \in NewNames }

put_physical_object ==
    \E input \in PhysicalPutInputs, scenario_id \in 1..MaxScenarios,
       physical_object_id \in PhysicalObjectIds, is_scenario_object \in BOOLEAN,
       user \in Callers :
        write_physical_object(input, scenario_id, physical_object_id,
                              is_scenario_object, user.id)

patch_physical_object ==
    \E input \in PhysicalPatchInputs, scenario_id \in 1..MaxScenarios,
       physical_object_id \in PhysicalObjectIds, is_scenario_object \in BOOLEAN,
       user \in Callers :
        write_physical_object(input, scenario_id, physical_object_id,
                              is_scenario_object, user.id)

\* the checks of delete_physical_object_in_db, in order
delete_physical_object_outcome(scenario_id, physical_object_id, is_scenario_object, user_id) ==
    IF \A s \in scenarios_data : s.scenario_id # scenario_id THEN "NotFound"
    ELSE IF ProjectOf(scenario_id).user_id # user_id THEN "AccessDenied"
    ELSE IF /\ is_scenario_object
            /\ \A lp \in projects_physical_objects_data : lp.physical_object_id # physical_object_id
    THEN "NotFound"
    ELSE IF /\ ~is_scenario_object
            /\ \A po \in physical_objects_data : po.physical_object_id # physical_object_id
    THEN "NotFound"
    ELSE "ok"

\* delete_physical_object_in_db as one call
delete_physical_object_call(scenario_id, physical_object_id, is_scenario_object, user_id) ==
    /\ delete_physical_object_outcome(scenario_id, physical_object_id,
                                         is_scenario_object, user_id) = "ok"
    /\ LET project == ProjectOf(scenario_id) IN
       IF is_scenario_object
       THEN /\ projects_physical_objects_data' =
                   { lp \in projects_physical_objects_data : lp.physical_object_id # physical_object_id }
            /\ projects_urban_objects_data' =
                   CascadeLocalDelete(projects_urban_objects_data, {}, {physical_object_id}, {})
            /\ UNCHANGED <<public_vars, project_vars, projects_object_geometries_data,
                           projects_services_data, seq_vars>>
       ELSE LET remaining == BagFilter(projects_urban_objects_data, LAMBDA r :
                                 r.public_physical_object_id # physical_object_id)
                \* the subqueries of the second statement see the rows left by the first
                hidden == { r.public_urban_object_id : r \in
                              { x \in DOMAIN remaining :
                                  x.scenario_id = scenario_id /\ x.public_urban_object_id # NULL } }
                urban_objects == physical_urban_objects(hidden, project.project_id, physical_object_id)
                result == remaining (+) hiding_rows(scenario_id, urban_objects)
            IN
            /\ BagCardinality(result) <= MaxUrbanObjects
            /\ projects_urban_objects_data' = result
            /\ UNCHANGED <<public_vars, project_vars, projects_object_geometries_data,
                           projects_physical_objects_data, projects_services_data, seq_vars>>

delete_physical_object ==
    \E scenario_id \in 1..MaxScenarios, physical_object_id \in PhysicalObjectIds,
       is_scenario_object \in BOOLEAN, user \in Callers :
        delete_physical_object_call(scenario_id, physical_object_id,
                                    is_scenario_object, user.id)

PhysicalObjectPosts ==
    { [territory_id |-> t, physical_object_type_id |-> ty, geometry |-> g,
       address |-> a, name |-> n] :
         t \in TerritoryInputs, ty \in TypeInputs, g \in NewGeometries,
         a \in NewAddresses, n \in NewNames }

\* the checks of add_physical_object_with_geometry_to_db, in order
add_physical_object_outcome(physical_object, scenario_id, user_id) ==
    IF \A s \in scenarios_data : s.scenario_id # scenario_id THEN "NotFound"
    ELSE IF ProjectOf(scenario_id).user_id # user_id THEN "AccessDenied"
    ELSE IF physical_object.territory_id \notin DOMAIN territories_data THEN "NotFound"
    ELSE IF physical_object.physical_object_type_id \notin DOMAIN physical_object_types_dict
    THEN "NotFound"
    ELSE "ok"

\* add_physical_object_with_geometry_to_db
add_physical_object_with_geometry ==
    \E physical_object \in PhysicalObjectPosts, scenario_id \in 1..MaxScenarios, user \in Callers :
    /\ add_physical_object_outcome(physical_object, scenario_id, user.id) = "ok"
    /\ LET physical_object_id == seq_physical + 1
                object_geometry_id == seq_geometry + 1
            IN
            /\ seq_physical < MaxPhysicalObjects
            /\ seq_geometry < MaxGeometries
            /\ BagCardinality(projects_urban_objects_data) < MaxUrbanObjects
            /\ projects_physical_objects_data' = projects_physical_objects_data \cup
                  { [physical_object_id |-> physical_object_id,
                     public_physical_object_id |-> NULL,
                     physical_object_type_id |-> physical_object.physical_object_type_id,
                     name |-> physical_object.name] }
            /\ projects_object_geometries_data' = projects_object_geometries_data \cup
                  { [object_geometry_id |-> object_geometry_id,
                     public_object_geometry_id |-> NULL,
                     territory_id |-> physical_object.territory_id,
                     geometry |-> physical_object.geometry,
                     address |-> physical_object.address] }
            /\ projects_urban_objects_data' = projects_urban_objects_data (+)
                  RowsOf({ JoinRow(scenario_id, NULL, object_geometry_id, physical_object_id,
                                   NULL, NULL, NULL, NULL) })
            /\ seq_physical' = physical_object_id
            /\ seq_geometry' = object_geometry_id
            /\ UNCHANGED <<public_vars, project_vars, projects_services_data,
                           seq_project, seq_scenario>>

\* descendants of a territory, the root included (recursive CTE over parent_id)
RECURSIVE territories_cte(_)
territories_cte(reached) ==
    LET children == { t \in DOMAIN territories_data : territories_data[t] \in reached }
    IN IF children \subseteq reached THEN reached ELSE territories_cte(reached \cup children)

\* physical_object_function_id of a physical object type, NULL for an unknown type
FunctionOfType(physical_object_type_id) ==
    IF physical_object_type_id \in DOMAIN physical_object_types_dict
    THEN physical_object_types_dict[physical_object_type_id].physical_object_function_id
    ELSE NULL

\* function of the physical object a scenario join row resolves to
FunctionOfRow(r) ==
    IF r.physical_object_id # NULL
    THEN IF \E lp \in projects_physical_objects_data : lp.physical_object_id = r.physical_object_id
         THEN FunctionOfType((CHOOSE lp \in projects_physical_objects_data :
                                 lp.physical_object_id = r.physical_object_id).physical_object_type_id)
         ELSE NULL
    ELSE IF \E po \in physical_objects_data : po.physical_object_id = r.public_physical_object_id
         THEN FunctionOfType(PublicPhysicalObject(r.public_physical_object_id).physical_object_type_id)
         ELSE NULL

\* the checks of update_physical_objects_by_function_id_to_db, in order
update_physical_objects_outcome(physical_objects, scenario_id, user_id, physical_object_function_id) ==
    IF \A s \in scenarios_data : s.scenario_id # scenario_id THEN "NotFound"
    ELSE IF ProjectOf(scenario_id).user_id # user_id THEN "AccessDenied"
    ELSE IF \E po \in physical_objects : po.territory_id \notin DOMAIN territories_data
    THEN "NotFound"
    ELSE IF \E po \in physical_objects :
               po.physical_object_type_id \notin DOMAIN physical_object_types_dict
    THEN "NotFound"
    ELSE IF \E po \in physical_objects :
               FunctionOfType(po.physical_object_type_id) # physical_object_function_id
    THEN "ValueError"
    ELSE "ok"

\* update_physical_objects_by_function_id_to_db, called with one new object
update_physical_objects_by_function_id ==
    \E physical_object \in PhysicalObjectPosts, scenario_id \in 1..MaxScenarios,
       user \in Callers, physical_object_function_id \in FunctionInputs :
    /\ update_physical_objects_outcome({physical_object}, scenario_id, user.id,
                                       physical_object_function_id) = "ok"
    /\ LET project == ProjectOf(scenario_id)
           objects_intersecting_ids ==
               { g.object_geometry_id : g \in
                   { x \in object_geometries_data :
                       /\ x.territory_id \in territories_cte({project.territory_id})
                       /\ ST_Intersects(x.geometry, project_geometry(project.project_id)) } }
           public_urban_objects_query ==
               { uo \in urban_objects_data :
                   /\ uo.urban_object_id \notin public_urban_object_ids(scenario_id)
                   /\ uo.object_geometry_id \in objects_intersecting_ids
                   /\ \E po \in physical_objects_data :
                         /\ po.physical_object_id = uo.physical_object_id
                         /\ FunctionOfType(po.physical_object_type_id)
                               = physical_object_function_id }
           hidden == projects_urban_objects_data
                        (+) hiding_rows(scenario_id, public_urban_objects_query)
           matched(r) == /\ r.scenario_id = scenario_id
                         /\ r.public_urban_object_id = NULL
                         /\ FunctionOfRow(r) = physical_object_function_id
           result == { r \in DOMAIN hidden : matched(r) }
           scenario_physical_objects == { r.physical_object_id : r \in result } \ {NULL}
           scenario_object_geometries == { r.object_geometry_id : r \in result } \ {NULL}
           kept == BagFilter(
                       CascadeLocalDelete(hidden, scenario_object_geometries,
                                          scenario_physical_objects, {}),
                       LAMBDA r : ~(matched(r) /\ r.public_physical_object_id # NULL))
           physical_object_id == seq_physical + 1
           object_geometry_id == seq_geometry + 1
           inserted == kept (+) RowsOf({ JoinRow(scenario_id, NULL, object_geometry_id,
                                                 physical_object_id, NULL, NULL, NULL, NULL) })
       IN
       /\ seq_physical < MaxPhysicalObjects
       /\ seq_geometry < MaxGeometries
       /\ BagCardinality(hidden) <= MaxUrbanObjects
       /\ BagCardinality(inserted) <= MaxUrbanObjects
       /\ projects_physical_objects_data' =
              { lp \in projects_physical_objects_data :
                  lp.physical_object_id \notin scenario_physical_objects } \cup
              { [physical_object_id |-> physical_object_id,
                 public_physical_object_id |-> NULL,
                 physical_object_type_id |-> physical_object.physical_object_type_id,
                 name |-> physical_object.name] }
       /\ projects_object_geometries_data' =
              { lg \in projects_object_geometries_data :
                  lg.object_geometry_id \notin scenario_object_geometries } \cup
              { [object_geometry_id |-> object_geometry_id,
                 public_object_geometry_id |-> NULL,
                 territory_id |-> physical_object.territory_id,
                 geometry |-> physical_object.geometry,
                 address |-> physical_object.address] }
       /\ projects_urban_objects_data' = inserted
       /\ seq_physical' = physical_object_id
       /\ seq_geometry' = object_geometry_id
       /\ UNCHANGED <<public_vars, project_vars, projects_services_data,
                      seq_project, seq_scenario>>

\* ------------------------------------------------------------------------
\* Project deletion
\* ------------------------------------------------------------------------
\* scenarios removed with a project: its own and, through parent_id, their children
RECURSIVE CascadeScenarios(_)
CascadeScenarios(scenario_ids) ==
    LET children == { s.scenario_id : s \in { x \in scenarios_data : x.parent_id \in scenario_ids } }
    IN IF children \subseteq scenario_ids THEN scenario_ids
       ELSE CascadeScenarios(scenario_ids \cup children)

\* delete_project_from_db
delete_project ==
    \E project_id \in 1..MaxProjects, user \in Callers :
    /\ check_project(project_id, user, TRUE, TRUE) = "ok"
    /\ LET own_scenarios == { s.scenario_id : s \in
                                { x \in scenarios_data : x.project_id = project_id } }
           urban_objects == { r \in DOMAIN projects_urban_objects_data :
                                r.scenario_id \in own_scenarios }
           geometry_ids == { r.object_geometry_id : r \in urban_objects } \ {NULL}
           physical_ids == { r.physical_object_id : r \in urban_objects } \ {NULL}
           service_ids == { r.service_id : r \in urban_objects } \ {NULL}
           removed_scenarios == CascadeScenarios(own_scenarios)
       IN
       /\ projects_object_geometries_data' =
              { lg \in projects_object_geometries_data : lg.object_geometry_id \notin geometry_ids }
       /\ projects_physical_objects_data' =
              { lp \in projects_physical_objects_data : lp.physical_object_id \notin physical_ids }
       /\ projects_services_data' =
              { ls \in projects_services_data : ls.service_id \notin service_ids }
       /\ projects_urban_objects_data' =
              CascadeScenarioDelete(
                  CascadeLocalDelete(projects_urban_objects_data, geometry_ids,
                                     physical_ids, service_ids),
                  removed_scenarios)
       /\ projects_data' = { p \in projects_data : p.project_id # project_id }
       /\ projects_territory_data' =
              [p \in DOMAIN projects_territory_data \ {project_id} |-> projects_territory_data[p]]
       /\ scenarios_data' = { s \in scenarios_data : s.scenario_id \notin removed_scenarios }
       /\ UNCHANGED <<public_vars, seq_vars>>

\* ------------------------------------------------------------------------
\* Promotion: a base scenario of a project made from a regional scenario
\* ------------------------------------------------------------------------
\* geometry of a scenario geometry row, NULL when the outer join finds none
local_geometry_of(object_geometry_id) ==
    IF \E lg \in projects_object_geometries_data : lg.object_geometry_id = object_geometry_id
    THEN (CHOOSE lg \in projects_object_geometries_data :
             lg.object_geometry_id = object_geometry_id).geometry
    ELSE NULLGEOM

\* geometry of a public geometry row, NULL when the outer join finds none
public_geometry_of(object_geometry_id) ==
    IF \E g \in object_geometries_data : g.object_geometry_id = object_geometry_id
    THEN PublicGeometry(object_geometry_id).geometry
    ELSE NULLGEOM

\* regional_urban_objects_cte: join rows of the regional scenario that meet the mask
regional_urban_objects(scenario_id, geometry) ==
    BagFilter(projects_urban_objects_data, LAMBDA r :
        /\ r.scenario_id = scenario_id
        /\ \/ ST_Intersects(local_geometry_of(r.object_geometry_id), geometry)
           \/ ST_Intersects(public_geometry_of(r.public_object_geometry_id), geometry))

\* faulty variant: the rows are not copied and keep their ids
copy_map_same_rows(ids, first_id) == [k \in ids |-> k]

\* dict(zip(sorted ids, new ids)) of a copy whose rows are numbered from first_id
copy_map(ids, first_id) == [k \in ids |-> first_id + Rank(k, ids) - 1]

\* build_case(col, mapping): the mapped id, NULL when the mapping has no such key
build_case(col, mapping) == IF col \in DOMAIN mapping THEN mapping[col] ELSE NULL

\* rows inserted by copy_geometries
copy_geometries(mapping, geometry, is_from_public) ==
    IF is_from_public
    THEN { [object_geometry_id |-> mapping[g.object_geometry_id],
            public_object_geometry_id |-> g.object_geometry_id,
            territory_id |-> g.territory_id,
            geometry |-> ST_Intersection(g.geometry, geometry),
            address |-> g.address] :
           g \in { x \in object_geometries_data : x.object_geometry_id \in DOMAIN mapping } }
    ELSE { [lg EXCEPT !.object_geometry_id = mapping[lg.object_geometry_id],
                      !.geometry = ST_Intersection(lg.geometry, geometry)] :
           lg \in { x \in projects_object_geometries_data :
                       x.object_geometry_id \in DOMAIN mapping } }

\* rows inserted by copy_physical_objects
copy_physical_objects(mapping) ==
    { [lp EXCEPT !.physical_object_id = mapping[lp.physical_object_id]] :
      lp \in { x \in projects_physical_objects_data : x.physical_object_id \in DOMAIN mapping } }

\* rows inserted by copy_services
copy_services(mapping) ==
    { [ls EXCEPT !.service_id = mapping[ls.service_id]] :
      ls \in { x \in projects_services_data : x.service_id \in DOMAIN mapping } }

\* last id of the scenario service table
last_service_id ==
    IF projects_services_data = {} THEN 0
    ELSE CHOOSE m \in { ls.service_id : ls \in projects_services_data } :
            \A ls \in projects_services_data : ls.service_id <= m

\* faulty variant: the source scenario may belong to any project
create_base_scenario_outcome_any_source(project_id, scenario_id) ==
    IF \A p \in projects_data : p.project_id # project_id THEN "NotFound"
    ELSE IF (CHOOSE p \in projects_data : p.project_id = project_id).is_regional
    THEN "NotAllowedInRegionalProject"
    ELSE IF \A s \in scenarios_data : s.scenario_id # scenario_id THEN "NotFound"
    ELSE IF \E s \in scenarios_data :
               s.project_id = project_id /\ s.parent_id = scenario_id /\ s.is_based
    THEN "AlreadyExists"
    ELSE "ok"

\* faulty variant: a base scenario from the same source may exist already
create_base_scenario_outcome_again(project_id, scenario_id) ==
    IF \A p \in projects_data : p.project_id # project_id THEN "NotFound"
    ELSE IF (CHOOSE p \in projects_data : p.project_id = project_id).is_regional
    THEN "NotAllowedInRegionalProject"
    ELSE IF \A s \in scenarios_data : s.scenario_id # scenario_id THEN "NotFound"
    ELSE IF ~ProjectOf(scenario_id).is_regional THEN "NotAllowedInProjectScenario"
    ELSE "ok"

\* the checks of create_base_scenario_to_db, in order
create_base_scenario_outcome(project_id, scenario_id) ==
    IF \A p \in projects_data : p.project_id # project_id THEN "NotFound"
    ELSE IF (CHOOSE p \in projects_data : p.project_id = project_id).is_regional
    THEN "NotAllowedInRegionalProject"
    ELSE IF \A s \in scenarios_data : s.scenario_id # scenario_id THEN "NotFound"
    ELSE IF ~ProjectOf(scenario_id).is_regional THEN "NotAllowedInProjectScenario"
    ELSE IF \E s \in scenarios_data :
               s.project_id = project_id /\ s.parent_id = scenario_id /\ s.is_based
    THEN "AlreadyExists"
    ELSE "ok"

\* create_base_scenario_to_db
create_base_scenario_call(project_id, scenario_id) ==
    /\ create_base_scenario_outcome(project_id, scenario_id) = "ok"
    /\ LET geometry == project_geometry(project_id)
           base_scenario_id == seq_scenario + 1
           results == regional_urban_objects(scenario_id, geometry)
           geom_ids == { r.object_geometry_id : r \in DOMAIN results } \ {NULL}
           public_geom_ids == { r.public_object_geometry_id : r \in DOMAIN results } \ {NULL}
           phys_ids == { r.physical_object_id : r \in DOMAIN results } \ {NULL}
           svc_ids == { r.service_id : r \in DOMAIN results } \ {NULL}
           geom_map == copy_map(geom_ids, seq_geometry + 1)
           public_geom_map ==
               copy_map(public_geom_ids, seq_geometry + Cardinality(geom_ids) + 1)
           phys_map == copy_map(phys_ids, seq_physical + 1)
           svc_map == copy_map(svc_ids, last_service_id + 1)
           copied_geometries ==
               copy_geometries(geom_map, geometry, FALSE)
                  \cup copy_geometries(public_geom_map, geometry, TRUE)
           copied_rows ==
               BagOfAll(LAMBDA r : JoinRow(base_scenario_id, r.public_urban_object_id,
                                           NULL, NULL, NULL, NULL, NULL, NULL),
                        BagFilter(results, LAMBDA r : r.public_urban_object_id # NULL))
               (+)
               BagOfAll(LAMBDA r :
                           JoinRow(base_scenario_id, NULL,
                                   IF r.public_object_geometry_id # NULL
                                   THEN build_case(r.public_object_geometry_id, public_geom_map)
                                   ELSE build_case(r.object_geometry_id, geom_map),
                                   build_case(r.physical_object_id, phys_map),
                                   build_case(r.service_id, svc_map),
                                   NULL, r.public_physical_object_id, r.public_service_id),
                        BagFilter(results, LAMBDA r : r.public_urban_object_id = NULL))
           first_crop == seq_geometry + Cardinality(geom_ids)
                            + Cardinality(public_geom_ids) + 1
           crops == cropped_geometries(geometry, first_crop)
           id_mapping_keys == { c.public_object_geometry_id : c \in crops }
           new_geometries == projects_object_geometries_data \cup copied_geometries \cup crops
           new_rows == projects_urban_objects_data (+) copied_rows
                          (+) insert_urban_objects(base_scenario_id, new_geometries,
                                                   id_mapping_keys)
       IN
       /\ seq_scenario < MaxScenarios
       /\ first_crop + Cardinality(crops) - 1 <= MaxGeometries
       /\ seq_physical + Cardinality(phys_ids) <= MaxPhysicalObjects
       /\ BagCardinality(new_rows) <= MaxUrbanObjects
       /\ scenarios_data' = scenarios_data \cup
              { [scenario_id |-> base_scenario_id, project_id |-> project_id,
                 is_based |-> TRUE, parent_id |-> scenario_id] }
       /\ projects_object_geometries_data' = new_geometries
       /\ projects_physical_objects_data' =
              projects_physical_objects_data \cup copy_physical_objects(phys_map)
       /\ projects_services_data' = projects_services_data \cup copy_services(svc_map)
       /\ projects_urban_objects_data' = new_rows
       /\ seq_scenario' = base_scenario_id
       /\ seq_geometry' = first_crop + Cardinality(crops) - 1
       /\ seq_physical' = seq_physical + Cardinality(phys_ids)
       /\ UNCHANGED <<public_vars, projects_data, projects_territory_data,
                      seq_project>>

create_base_scenario ==
    \E project_id \in 1..MaxProjects, scenario_id \in 1..MaxScenarios :
        create_base_scenario_call(project_id, scenario_id)

\* ------------------------------------------------------------------------
\* Merged read of the geometries of a scenario
\* ------------------------------------------------------------------------
\* the checks of get_geometries_by_scenario_id_from_db, in order
get_geometries_outcome(scenario_id, user_id) ==
    IF \A s \in scenarios_data : s.scenario_id # scenario_id THEN "NotFound"
    ELSE IF ProjectOf(scenario_id).user_id # user_id /\ ~ProjectOf(scenario_id).public
    THEN "AccessDenied"
    ELSE "ok"

\* faulty variant: the query does not exclude the hidden public urban objects
public_urban_objects_query_unfiltered(scenario_id) ==
    { uo \in urban_objects_data :
        /\ \E po \in physical_objects_data : po.physical_object_id = uo.physical_object_id
        /\ \E g \in object_geometries_data :
              /\ g.object_geometry_id = uo.object_geometry_id
              /\ g.territory_id \in DOMAIN territories_data
              /\ ST_Within(g.geometry, project_geometry(ProjectOf(scenario_id).project_id)) }

\* public urban objects the scenario shows as they are (public_urban_objects_query)
public_urban_objects_query(scenario_id) ==
    { uo \in urban_objects_data :
        /\ \E po \in physical_objects_data : po.physical_object_id = uo.physical_object_id
        /\ \E g \in object_geometries_data :
              /\ g.object_geometry_id = uo.object_geometry_id
              /\ g.territory_id \in DOMAIN territories_data
              /\ ST_Within(g.geometry, project_geometry(ProjectOf(scenario_id).project_id))
        /\ uo.urban_object_id \notin public_urban_object_ids(scenario_id) }

\* public_objects: one entry per geometry of the public bucket
public_objects(scenario_id) ==
    { [object_geometry_id |-> g.object_geometry_id, territory_id |-> g.territory_id,
       geometry |-> g.geometry, address |-> g.address, is_scenario_object |-> FALSE] :
      g \in { x \in object_geometries_data :
                \E uo \in public_urban_objects_query(scenario_id) :
                    uo.object_geometry_id = x.object_geometry_id } }

\* join rows of the scenario that carry slots (scenario_urban_objects_query)
scenario_urban_objects_query(scenario_id) ==
    { r \in DOMAIN projects_urban_objects_data :
        r.scenario_id = scenario_id /\ r.public_urban_object_id = NULL }

\* the entry the read makes of one scenario join row
scenario_object(r) ==
    LET is_scenario_geometry ==
            r.object_geometry_id # NULL /\ r.public_object_geometry_id = NULL
        found_local == \E lg \in projects_object_geometries_data :
                           lg.object_geometry_id = r.object_geometry_id
        found_public == \E g \in object_geometries_data :
                            g.object_geometry_id = r.public_object_geometry_id
        source == IF is_scenario_geometry /\ found_local
                  THEN CHOOSE lg \in projects_object_geometries_data :
                           lg.object_geometry_id = r.object_geometry_id
                  ELSE IF ~is_scenario_geometry /\ found_public
                  THEN PublicGeometry(r.public_object_geometry_id)
                  ELSE [territory_id |-> NULL, geometry |-> NULLGEOM, address |-> "NULL"]
    IN [object_geometry_id |-> IF r.object_geometry_id # NULL THEN r.object_geometry_id
                               ELSE r.public_object_geometry_id,
        territory_id |-> source.territory_id,
        geometry |-> source.geometry, address |-> source.address,
        is_scenario_object |-> is_scenario_geometry]

scenario_objects(scenario_id) ==
    { scenario_object(r) : r \in scenario_urban_objects_query(scenario_id) }

\* get_geometries_by_scenario_id_from_db: grouped_objects keeps, for every
\* geometry id, one entry per value of is_scenario_object (the second one under
\* the key -geometry_id)
get_geometries_by_scenario_id(scenario_id) ==
    LET objects == public_objects(scenario_id) \cup scenario_objects(scenario_id)
        first(id, flag) == CHOOSE o \in objects :
                               o.object_geometry_id = id /\ o.is_scenario_object = flag
    IN { first(o.object_geometry_id, o.is_scenario_object) : o \in objects }

\* a call that runs from its first statement to its commit with no other call
\* in between: what it wrote is committed when it returns
whole_call == committed' = Database' /\ UNCHANGED call_vars

Next ==
    \/ add_project /\ whole_call
    \/ add_scenario /\ whole_call
    \/ put_object_geometry /\ whole_call
    \/ patch_object_geometry /\ whole_call
    \/ delete_object_geometry /\ whole_call
    \/ put_physical_object /\ whole_call
    \/ patch_physical_object /\ whole_call
    \/ delete_physical_object /\ whole_call
    \/ add_physical_object_with_geometry /\ whole_call
    \/ update_physical_objects_by_function_id /\ whole_call
    \/ delete_project /\ whole_call
    \/ create_base_scenario /\ whole_call

Spec == Init /\ [][Next]_vars

\* territories_data.geometry
territories_geometry == (1 :> {1, 2, 3}) @@ (2 :> {1, 2})

\* the rows the recursive term of a CTE joins to its working table: the
\* children of the rows in it (parent_id = cte.id), or their parents
cte_term(parent_of, working, upwards) ==
    IF upwards THEN { parent_of[x] : x \in working } \cap DOMAIN parent_of
    ELSE { x \in DOMAIN parent_of : parent_of[x] \in working }

\* the ids a recursive CTE with UNION ALL yields from a working table
RECURSIVE recursive_cte(_, _, _)
recursive_cte(parent_of, working, upwards) ==
    IF working = {} THEN {}
    ELSE working \cup recursive_cte(parent_of, cte_term(parent_of, working, upwards), upwards)

\* ST_Buffer by 3000 m: the cells of the geometry and the cells next to them
ST_Buffer(g) == { c \in 1..3 : \E x \in g : c - x \in {-1, 0, 1} }

\* the largest element of a non-empty set of levels (order by level desc limit 1)
Highest(levels) == CHOOSE l \in levels : \A m \in levels : m <= l

\* faulty variant: without a city the whole hierarchy is listed
project_properties_without_cities(territories, territory_id, geometry) ==
    LET parent_of == [id \in { t.territory_id : t \in territories } |->
                         (CHOOSE t \in territories : t.territory_id = id).parent_id]
        hierarchy_cte ==
            { t \in territories :
                t.territory_id \in recursive_cte(parent_of, {territory_id}, FALSE) }
    IN IF \A t \in territories : t.territory_id # territory_id
       THEN [error |-> "NotFound", territories |-> {}, districts |-> {}, context |-> {}]
       ELSE [error |-> "none",
             territories |-> { t.name : t \in hierarchy_cte },
             districts |-> { t.name : t \in hierarchy_cte },
             context |-> { t.territory_id : t \in hierarchy_cte }]

\* add_context_territories: what it puts into project.properties
project_properties(territories, territory_id, geometry) ==
    LET parent_of == [id \in { t.territory_id : t \in territories } |->
                         (CHOOSE t \in territories : t.territory_id = id).parent_id]
        hierarchy_cte ==
            { t \in territories :
                t.territory_id \in recursive_cte(parent_of, {territory_id}, FALSE) }
        cities_level == { t.level : t \in { x \in hierarchy_cte : x.is_city } }
        at_level(below) ==
            IF cities_level = {} THEN {}
            ELSE { t \in hierarchy_cte : t.level = Highest(cities_level) - below }
    IN IF \A t \in territories : t.territory_id # territory_id
       THEN [error |-> "NotFound", territories |-> {}, districts |-> {}, context |-> {}]
       ELSE [error |-> "none",
             territories |-> { t.name : t \in
                                 { x \in at_level(1) : ST_Intersects(x.geometry, geometry) } },
             districts |-> { t.name : t \in
                               { x \in at_level(2) : ST_Intersects(x.geometry, geometry) } },
             context |-> { t.territory_id : t \in
                             { x \in at_level(1) :
                                 /\ ST_Intersects(x.geometry, ST_Buffer(geometry))
                                 /\ ~x.is_city } }]

\* the rows of territories_data with the given territories flagged as cities
territories_rows(cities) ==
    { [territory_id |-> id, parent_id |-> territories_data[id],
       level |-> IF territories_data[id] = NULL THEN 1 ELSE 2,
       geometry |-> territories_geometry[id],
       name |-> IF id = 1 THEN "t1" ELSE "t2", is_city |-> id \in cities] :
      id \in DOMAIN territories_data }

\* ------------------------------------------------------------------------
\* Calls statement by statement: every statement of a call runs on the one
\* connection of the call, whose writes other connections see at the commit
\* ------------------------------------------------------------------------
\* how save_indicators can end: the request succeeds, one of its three except
\* clauses catches the failure, or loading the configuration raises before
\* the try block is entered
IndicatorOutcomes ==
    {"ok", "ClientResponseError", "ClientConnectorError", "Exception", "ConfigRaises"}

\* faulty variant: the project row is inserted before its context is gathered
Statements_project_first(c) ==
    IF c.op = "add_project" /\ c.is_regional
    THEN <<"insert_project", "commit">>
    ELSE IF c.op = "add_project"
    THEN <<"insert_project", "add_context_territories", "insert_projects_territory_data",
           "create_project_base_scenario", "insert_intersecting_geometries",
           "insert_urban_objects", "insert_functional_zones", "save_indicators",
           "get_project_by_id", "kafka_send", "commit">>
    ELSE IF c.op = "create_base_scenario"
    THEN <<"checks", "create_project_base_scenario",
           "copy_urban_objects_from_regional_scenario", "insert_intersecting_geometries",
           "insert_urban_objects", "insert_functional_zones", "save_indicators",
           "select_scenario", "kafka_send", "commit">>
    ELSE IF c.op = "put_object_geometry" /\ c.is_scenario_object
    THEN <<"checks", "update_object_geometry", "commit">>
    ELSE IF c.op = "put_object_geometry"
    THEN <<"checks", "insert_object_geometry", "insert_urban_objects_of_geometry",
           "update_urban_objects", "commit">>
    ELSE <<>>

\* the statements of a call in the order the handler runs them
Statements(c) ==
    IF c.op = "add_project" /\ c.is_regional
    THEN <<"insert_project", "commit">>
    ELSE IF c.op = "add_project"
    THEN <<"add_context_territories", "insert_project", "insert_projects_territory_data",
           "create_project_base_scenario", "insert_intersecting_geometries",
           "insert_urban_objects", "insert_functional_zones", "save_indicators",
           "get_project_by_id", "kafka_send", "commit">>
    ELSE IF c.op = "create_base_scenario"
    THEN <<"checks", "create_project_base_scenario",
           "copy_urban_objects_from_regional_scenario", "insert_intersecting_geometries",
           "insert_urban_objects", "insert_functional_zones", "save_indicators",
           "select_scenario", "kafka_send", "commit">>
    ELSE IF c.op = "put_object_geometry" /\ c.is_scenario_object
    THEN <<"checks", "update_object_geometry", "commit">>
    ELSE IF c.op = "put_object_geometry"
    THEN <<"checks", "insert_object_geometry", "insert_urban_objects_of_geometry",
           "update_urban_objects", "commit">>
    ELSE <<>>

\* the statement that follows the one the call has reached
following ==
    LET statements == Statements(call)
        i == CHOOSE k \in 1..Len(statements) : statements[k] = pc
    IN IF i = Len(statements) THEN "return" ELSE statements[i + 1]

\* faulty variant: the writes of the connection stay
rollback_nothing == UNCHANGED <<project_vars, local_vars>>

\* the connection is closed without a commit: its writes are discarded (the
\* values drawn from the sequences are not given back)
rollback ==
    /\ projects_data' = committed.projects_data
    /\ projects_territory_data' = committed.projects_territory_data
    /\ scenarios_data' = committed.scenarios_data
    /\ projects_object_geometries_data' = committed.projects_object_geometries_data
    /\ projects_physical_objects_data' = committed.projects_physical_objects_data
    /\ projects_services_data' = committed.projects_services_data
    /\ projects_urban_objects_data' = committed.projects_urban_objects_data

\* the statement raises: the exception leaves the handler before its commit
raise(error) ==
    /\ rollback
    /\ pc' = "idle"
    /\ call' = NoCall
    /\ log' = <<>>
    /\ response' = error
    /\ UNCHANGED <<public_vars, seq_vars, committed>>

\* the statement is done and the handler goes on to the next one
done(c) ==
    /\ pc' = following
    /\ call' = c
    /\ log' = Append(log, pc)
    /\ UNCHANGED <<response, committed>>

\* project.properties before add_context_territories has filled them
NoProperties == [error |-> "none", territories |-> {}, districts |-> {}, context |-> {}]

\* add_project_to_db is called
begin_add_project ==
    \E user \in Callers, public \in PublicFlags, is_regional \in BOOLEAN,
       territory_id \in ProjectTerritories \cup TerritoryInputs, mask \in ProjectMasks :
        LET c == [op |-> "add_project", user |-> user, public |-> public,
                  is_regional |-> is_regional, territory_id |-> territory_id,
                  mask |-> IF is_regional THEN NULLGEOM ELSE mask,
                  territories |-> territories_rows({}), properties |-> NoProperties,
                  project_id |-> NULL, scenario_id |-> NULL, id_mapping |-> {}]
        IN
        /\ pc = "idle"
        /\ user.id \in ProjectOwners
        /\ is_regional => territory_id \in ProjectTerritories
        /\ call' = c
        /\ pc' = Statements(c)[1]
        /\ log' = <<>>
        /\ response' = "none"
        /\ UNCHANGED <<public_vars, project_vars, local_vars, seq_vars, committed>>

\* add_context_territories: the territory must exist; the context it gathers
\* goes into project.properties, which insert_project stores
add_context_territories ==
    /\ pc = "add_context_territories"
    /\ LET properties == project_properties(call.territories, call.territory_id, call.mask) IN
       IF properties.error # "none"
       THEN raise("NotFound")
       ELSE /\ done([call EXCEPT !.properties = properties])
            /\ UNCHANGED <<public_vars, project_vars, local_vars, seq_vars>>

\* insert_project
insert_project ==
    /\ pc = "insert_project"
    /\ seq_project < MaxProjects
    /\ projects_data' = projects_data \cup
          { [project_id |-> seq_project + 1, user_id |-> call.user.id,
             is_regional |-> call.is_regional, public |-> call.public,
             territory_id |-> call.territory_id] }
    /\ seq_project' = seq_project + 1
    /\ done([call EXCEPT !.project_id = seq_project + 1])
    /\ UNCHANGED <<public_vars, projects_territory_data, scenarios_data, local_vars,
                   seq_scenario, seq_geometry, seq_physical>>

\* insert(projects_territory_data)
insert_projects_territory_data ==
    /\ pc = "insert_projects_territory_data"
    /\ projects_territory_data' = projects_territory_data @@ (call.project_id :> call.mask)
    /\ done(call)
    /\ UNCHANGED <<public_vars, projects_data, scenarios_data, local_vars, seq_vars>>

\* create_project_base_scenario: the parent is the given regional scenario
\* (create_base_scenario_to_db) or is looked up (add_project_to_db)
create_project_base_scenario ==
    /\ pc = "create_project_base_scenario"
    /\ LET parents == IF call.op = "create_base_scenario" THEN {call.scenario_id}
                      ELSE RegionalBaseScenarios(call.territory_id)
           found == ScalarOutcome(Cardinality(parents))
       IN
       IF found = "none" THEN raise("NotFoundByParams")
       ELSE IF found = "MultipleResultsFound" THEN raise("MultipleResultsFound")
       ELSE /\ seq_scenario < MaxScenarios
            /\ scenarios_data' = scenarios_data \cup
                  { [scenario_id |-> seq_scenario + 1, project_id |-> call.project_id,
                     is_based |-> TRUE, parent_id |-> CHOOSE p \in parents : TRUE] }
            /\ seq_scenario' = seq_scenario + 1
            /\ done(IF call.op = "create_base_scenario"
                    THEN [call EXCEPT !.base_scenario_id = seq_scenario + 1]
                    ELSE [call EXCEPT !.scenario_id = seq_scenario + 1])
            /\ UNCHANGED <<public_vars, projects_data, projects_territory_data, local_vars,
                           seq_project, seq_geometry, seq_physical>>

\* the geometry the call bootstraps with: the given territory of the new
\* project, or the stored territory of the project that gets a base scenario
given_geometry ==
    IF call.op = "create_base_scenario" THEN project_geometry(call.project_id) ELSE call.mask

\* the scenario the call fills
new_scenario_id ==
    IF call.op = "create_base_scenario" THEN call.base_scenario_id ELSE call.scenario_id

\* the result of copy_urban_objects_from_regional_scenario: the rows it adds
\* to each table and its four id mappings
copy_urban_objects_from_regional_scenario(scenario_id, geometry, base_scenario_id) ==
    LET results == regional_urban_objects(scenario_id, geometry)
        geom_ids == { r.object_geometry_id : r \in DOMAIN results } \ {NULL}
        public_geom_ids == { r.public_object_geometry_id : r \in DOMAIN results } \ {NULL}
        phys_ids == { r.physical_object_id : r \in DOMAIN results } \ {NULL}
        svc_ids == { r.service_id : r \in DOMAIN results } \ {NULL}
        geom_map == copy_map(geom_ids, seq_geometry + 1)
        public_geom_map == copy_map(public_geom_ids, seq_geometry + Cardinality(geom_ids) + 1)
        phys_map == copy_map(phys_ids, seq_physical + 1)
        svc_map == copy_map(svc_ids, last_service_id + 1)
    IN [results |-> results,
        geom_map |-> geom_map,
        public_geom_map |-> public_geom_map,
        phys_map |-> phys_map,
        svc_map |-> svc_map,
        geometries |-> copy_geometries(geom_map, geometry, FALSE)
                          \cup copy_geometries(public_geom_map, geometry, TRUE),
        physical_objects |-> copy_physical_objects(phys_map),
        services |-> copy_services(svc_map),
        urban_objects |->
            BagOfAll(LAMBDA r : JoinRow(base_scenario_id, r.public_urban_object_id,
                                        NULL, NULL, NULL, NULL, NULL, NULL),
                     BagFilter(results, LAMBDA r : r.public_urban_object_id # NULL))
            (+)
            BagOfAll(LAMBDA r :
                        JoinRow(base_scenario_id, NULL,
                                IF r.public_object_geometry_id # NULL
                                THEN build_case(r.public_object_geometry_id, public_geom_map)
                                ELSE build_case(r.object_geometry_id, geom_map),
                                build_case(r.physical_object_id, phys_map),
                                build_case(r.service_id, svc_map),
                                NULL, r.public_physical_object_id, r.public_service_id),
                     BagFilter(results, LAMBDA r : r.public_urban_object_id = NULL))]

\* copy_urban_objects_from_regional_scenario as a statement of
\* create_base_scenario_to_db
copy_urban_objects ==
    /\ pc = "copy_urban_objects_from_regional_scenario"
    /\ LET copy == copy_urban_objects_from_regional_scenario(call.scenario_id, given_geometry,
                                                             call.base_scenario_id)
       IN
       /\ projects_object_geometries_data' = projects_object_geometries_data \cup copy.geometries
       /\ projects_physical_objects_data' =
              projects_physical_objects_data \cup copy.physical_objects
       /\ projects_services_data' = projects_services_data \cup copy.services
       /\ projects_urban_objects_data' = projects_urban_objects_data (+) copy.urban_objects
       /\ seq_geometry' = seq_geometry + Cardinality(copy.geometries)
       /\ seq_physical' = seq_physical + Cardinality(copy.physical_objects)
       /\ done([call EXCEPT !.copy = copy])
    /\ UNCHANGED <<public_vars, project_vars, seq_project, seq_scenario>>

\* insert_intersecting_geometries
insert_intersecting_geometries ==
    /\ pc = "insert_intersecting_geometries"
    /\ LET crops == cropped_geometries(given_geometry, seq_geometry + 1) IN
       /\ seq_geometry + Cardinality(crops) <= MaxGeometries
       /\ projects_object_geometries_data' = projects_object_geometries_data \cup crops
       /\ seq_geometry' = seq_geometry + Cardinality(crops)
       /\ done([call EXCEPT !.id_mapping = { c.public_object_geometry_id : c \in crops }])
    /\ UNCHANGED <<public_vars, project_vars, projects_physical_objects_data,
                   projects_services_data, projects_urban_objects_data,
                   seq_project, seq_scenario, seq_physical>>

\* insert_urban_objects
insert_urban_objects_rows ==
    /\ pc = "insert_urban_objects"
    /\ LET new_rows == insert_urban_objects(new_scenario_id, projects_object_geometries_data,
                                            call.id_mapping)
       IN
       /\ BagCardinality(projects_urban_objects_data (+) new_rows) <= MaxUrbanObjects
       /\ projects_urban_objects_data' = projects_urban_objects_data (+) new_rows
    /\ done(call)
    /\ UNCHANGED <<public_vars, project_vars, projects_object_geometries_data,
                   projects_physical_objects_data, projects_services_data, seq_vars>>

\* insert_functional_zones: the zones are not among the tables of the model
insert_functional_zones ==
    /\ pc = "insert_functional_zones"
    /\ done(call)
    /\ UNCHANGED <<public_vars, project_vars, local_vars, seq_vars>>

\* save_indicators: a failure that one of the except clauses catches is
\* logged and the handler goes on; a failure before the try block leaves it
save_indicators ==
    /\ pc = "save_indicators"
    /\ \E outcome \in IndicatorOutcomes :
          IF outcome = "ConfigRaises"
          THEN raise("InternalServerError")
          ELSE done(call) /\ UNCHANGED <<public_vars, project_vars, local_vars, seq_vars>>

\* the read of the new project or scenario that the response is built from
read_result ==
    /\ pc \in {"get_project_by_id", "select_scenario"}
    /\ done(call)
    /\ UNCHANGED <<public_vars, project_vars, local_vars, seq_vars>>

\* kafka_producer.send
kafka_send ==
    /\ pc = "kafka_send"
    /\ done(call)
    /\ UNCHANGED <<public_vars, project_vars, local_vars, seq_vars>>

\* conn.commit()
commit ==
    /\ pc = "commit"
    /\ committed' = Database
    /\ pc' = "return"
    /\ log' = Append(log, pc)
    /\ UNCHANGED <<public_vars, project_vars, local_vars, seq_vars, call, response>>

\* the handler returns its result
return ==
    /\ pc = "return"
    /\ pc' = "idle"
    /\ call' = NoCall
    /\ log' = <<>>
    /\ response' = "ok"
    /\ UNCHANGED <<public_vars, project_vars, local_vars, seq_vars, committed>>

\* a statement that talks to the database or to the broker raises
statement_fails ==
    /\ pc \notin {"idle", "return", "save_indicators", "checks", "add_context_territories"}
    /\ raise("InternalServerError")

\* create_base_scenario_to_db is called
begin_create_base_scenario ==
    \E project_id \in 1..MaxProjects, scenario_id \in 1..MaxScenarios :
        /\ pc = "idle"
        /\ call' = [op |-> "create_base_scenario", project_id |-> project_id,
                    scenario_id |-> scenario_id, base_scenario_id |-> NULL,
                    copy |-> NULL, id_mapping |-> {}]
        /\ pc' = "checks"
        /\ log' = <<>>
        /\ response' = "none"
        /\ UNCHANGED <<public_vars, project_vars, local_vars, seq_vars, committed>>

\* put_object_geometry_to_db is called
begin_put_object_geometry ==
    \E input \in GeometryPutInputs, scenario_id \in 1..MaxScenarios,
       object_geometry_id \in ObjectGeometryIds, is_scenario_object \in BOOLEAN,
       user \in Callers :
        /\ pc = "idle"
        /\ call' = [op |-> "put_object_geometry", input |-> input,
                    scenario_id |-> scenario_id, object_geometry_id |-> object_geometry_id,
                    is_scenario_object |-> is_scenario_object, user |-> user,
                    updated_object_geometry_id |-> NULL]
        /\ pc' = "checks"
        /\ log' = <<>>
        /\ response' = "none"
        /\ UNCHANGED <<public_vars, project_vars, local_vars, seq_vars, committed>>

\* the checks of the call, which raise before anything is written
call_outcome ==
    IF call.op = "create_base_scenario"
    THEN create_base_scenario_outcome(call.project_id, call.scenario_id)
    ELSE write_object_geometry_outcome(call.input, call.scenario_id, call.object_geometry_id,
                                       call.is_scenario_object, call.user.id)

checks ==
    /\ pc = "checks"
    /\ IF call_outcome # "ok"
       THEN raise(call_outcome)
       ELSE done(call) /\ UNCHANGED <<public_vars, project_vars, local_vars, seq_vars>>

\* put_object_geometry_to_db on a scenario geometry: the one update
update_object_geometry ==
    /\ pc = "update_object_geometry"
    /\ write_object_geometry(call.input, call.scenario_id, call.object_geometry_id,
                             TRUE, call.user.id)
    /\ done(call)

\* put_object_geometry_to_db on a public geometry: the insert of the shadow row
insert_object_geometry ==
    /\ pc = "insert_object_geometry"
    /\ seq_geometry < MaxGeometries
    /\ projects_object_geometries_data' = projects_object_geometries_data \cup
          { [object_geometry_id |-> seq_geometry + 1,
             public_object_geometry_id |-> call.object_geometry_id,
             territory_id |-> call.input.territory_id,
             geometry |-> call.input.geometry,
             address |-> call.input.address] }
    /\ seq_geometry' = seq_geometry + 1
    /\ done([call EXCEPT !.updated_object_geometry_id = seq_geometry + 1])
    /\ UNCHANGED <<public_vars, project_vars, projects_physical_objects_data,
                   projects_services_data, projects_urban_objects_data,
                   seq_project, seq_scenario, seq_physical>>

\* put_object_geometry_to_db on a public geometry: the two inserts of join rows
insert_urban_objects_of_geometry ==
    /\ pc = "insert_urban_objects_of_geometry"
    /\ LET urban_objects ==
               geometry_urban_objects(call.scenario_id, ProjectOf(call.scenario_id).project_id,
                                      call.object_geometry_id)
           replacements ==
               BagOfAll(LAMBDA uo : JoinRow(call.scenario_id, NULL,
                                            call.updated_object_geometry_id,
                                            NULL, NULL, NULL, uo.physical_object_id,
                                            uo.service_id), RowsOf(urban_objects))
           inserted == projects_urban_objects_data
                          (+) hiding_rows(call.scenario_id, urban_objects) (+) replacements
       IN
       /\ BagCardinality(inserted) <= MaxUrbanObjects
       /\ projects_urban_objects_data' = inserted
    /\ done(call)
    /\ UNCHANGED <<public_vars, project_vars, projects_object_geometries_data,
                   projects_physical_objects_data, projects_services_data, seq_vars>>

\* put_object_geometry_to_db on a public geometry: the update of the join rows
update_urban_objects ==
    /\ pc = "update_urban_objects"
    /\ projects_urban_objects_data' =
          redirect_geometry(projects_urban_objects_data, call.object_geometry_id,
                            call.updated_object_geometry_id)
    /\ done(call)
    /\ UNCHANGED <<public_vars, project_vars, projects_object_geometries_data,
                   projects_physical_objects_data, projects_services_data, seq_vars>>

\* add_scenario as one call
add_scenario_call ==
    /\ pc = "idle"
    /\ add_scenario
    /\ whole_call

StepNext ==
    \/ begin_add_project
    \/ add_context_territories
    \/ insert_project
    \/ insert_projects_territory_data
    \/ create_project_base_scenario
    \/ insert_intersecting_geometries
    \/ insert_urban_objects_rows
    \/ insert_functional_zones
    \/ save_indicators
    \/ read_result
    \/ kafka_send
    \/ commit
    \/ return
    \/ statement_fails
    \/ begin_create_base_scenario
    \/ begin_put_object_geometry
    \/ checks
    \/ copy_urban_objects
    \/ update_object_geometry
    \/ insert_object_geometry
    \/ insert_urban_objects_of_geometry
    \/ update_urban_objects
    \/ add_scenario_call

StepSpec == Init /\ [][StepNext]_vars

\* ------------------------------------------------------------------------
\* check_project over every kind of project and caller
\* ------------------------------------------------------------------------
\* callers of check_project: owner, other user, superusers, and no user
CheckUsers ==
    Callers \cup { [id |-> "u1", is_superuser |-> TRUE], [id |-> "u3", is_superuser |-> TRUE],
                   NoUser }

\* the project table holds one project, private or public, regional or not
CheckProjects ==
    { [project_id |-> 1, user_id |-> "u1", is_regional |-> r, public |-> p, territory_id |-> 1] :
        r \in BOOLEAN, p \in BOOLEAN }

CheckInit ==
    /\ object_geometries_data = InitGeometries
    /\ physical_objects_data = InitPhysicalObjects
    /\ services_data = InitServices
    /\ urban_objects_data = InitUrbanObjects
    /\ projects_data \in { {p} : p \in CheckProjects }
    /\ projects_territory_data = <<>>
    /\ scenarios_data = {}
    /\ projects_object_geometries_data = {}
    /\ projects_physical_objects_data = {}
    /\ projects_services_data = {}
    /\ projects_urban_objects_data = EmptyBag
    /\ seq_project = 1
    /\ seq_scenario = 0
    /\ seq_geometry = 0
    /\ seq_physical = 0
    /\ committed = Database
    /\ pc = "check_project"
    /\ call \in { [op |-> "check_project", project_id |-> i, user |-> u, to_edit |-> e,
                   allow_regional |-> a] :
                     i \in 1..MaxProjects, u \in CheckUsers, e \in BOOLEAN, a \in BOOLEAN }
    /\ log = <<>>
    /\ response = "none"

\* check_project is called: it raises or returns
check_project_call ==
    /\ pc = "check_project"
    /\ response' = check_project(call.project_id, call.user, call.to_edit, call.allow_regional)
    /\ pc' = "idle"
    /\ UNCHANGED <<public_vars, project_vars, local_vars, seq_vars, committed, call, log>>

CheckNext == check_project_call

CheckSpec == CheckInit /\ [][CheckNext]_vars

\* ------------------------------------------------------------------------
\* copy_urban_objects_from_regional_scenario over the join rows a regional
\* scenario may hold
\* ------------------------------------------------------------------------
\* scenario geometries: one drawn in the scenario, one that shadows public
\* geometry 2, one of another regional scenario
CopyGeometries ==
    { [object_geometry_id |-> 1, public_object_geometry_id |-> NULL, territory_id |-> 2,
       geometry |-> {1}, address |-> "a1"],
      [object_geometry_id |-> 2, public_object_geometry_id |-> 2, territory_id |-> 2,
       geometry |-> {2}, address |-> "a1"],
      [object_geometry_id |-> 3, public_object_geometry_id |-> NULL, territory_id |-> 2,
       geometry |-> {1}, address |-> "a0"] }

CopyPhysicalObjects ==
    { [physical_object_id |-> 1, public_physical_object_id |-> NULL,
       physical_object_type_id |-> 1, name |-> "n1"] }

CopyServices == { [service_id |-> 1, public_service_id |-> NULL, name |-> "n1"] }

\* join rows the regional scenario 1 may hold: local and public slots in the
\* combinations the handlers write, and a row that hides a public urban object
CopyRows ==
    { JoinRow(1, NULL, 1, 1, NULL, NULL, NULL, NULL),
      JoinRow(1, NULL, 1, 1, 1, NULL, NULL, NULL),
      JoinRow(1, NULL, 2, NULL, NULL, NULL, 2, NULL),
      JoinRow(1, NULL, NULL, 1, NULL, 1, NULL, NULL),
      JoinRow(1, NULL, NULL, NULL, 1, 2, 2, NULL),
      JoinRow(1, NULL, NULL, NULL, NULL, 1, 2, 1),
      JoinRow(1, 1, NULL, NULL, NULL, NULL, NULL, NULL),
      JoinRow(1, 3, NULL, NULL, NULL, NULL, NULL, NULL) }

\* create_base_scenario_to_db(project 2, regional scenario 1) has passed its
\* checks and inserted the base scenario 3
CopyInit ==
    /\ object_geometries_data = InitGeometries
    /\ physical_objects_data = InitPhysicalObjects
    /\ services_data = InitServices
    /\ urban_objects_data = InitUrbanObjects
    /\ projects_data =
          { [project_id |-> 1, user_id |-> "u1", is_regional |-> TRUE, public |-> FALSE,
             territory_id |-> 1],
            [project_id |-> 2, user_id |-> "u1", is_regional |-> FALSE, public |-> FALSE,
             territory_id |-> 1] }
    /\ \E mask \in ProjectMasks : projects_territory_data = (2 :> mask)
    /\ scenarios_data =
          { [scenario_id |-> 1, project_id |-> 1, is_based |-> TRUE, parent_id |-> NULL],
            [scenario_id |-> 2, project_id |-> 1, is_based |-> FALSE, parent_id |-> NULL],
            [scenario_id |-> 3, project_id |-> 2, is_based |-> TRUE, parent_id |-> 1] }
    /\ projects_object_geometries_data = CopyGeometries
    /\ projects_physical_objects_data = CopyPhysicalObjects
    /\ projects_services_data = CopyServices
    /\ \E rows \in SUBSET CopyRows :
          projects_urban_objects_data =
              RowsOf(rows \cup {JoinRow(2, NULL, 3, NULL, NULL, NULL, 2, NULL)})
    /\ seq_project = 2
    /\ seq_scenario = 3
    /\ seq_geometry = 3
    /\ seq_physical = 1
    /\ committed = [Database EXCEPT !.scenarios_data = { s \in scenarios_data : s.scenario_id # 3 }]
    /\ pc = "copy_urban_objects_from_regional_scenario"
    /\ call = [op |-> "create_base_scenario", project_id |-> 2, scenario_id |-> 1,
               base_scenario_id |-> 3, copy |-> NULL, id_mapping |-> {}]
    /\ log = <<"checks", "create_project_base_scenario">>
    /\ response = "none"

CopyNext == copy_urban_objects

CopySpec == CopyInit /\ [][CopyNext]_vars

\* ------------------------------------------------------------------------
\* The bootstrap of a base scenario over a drawn public dataset
\* ------------------------------------------------------------------------
\* public urban objects the dataset may hold: geometry 1 and geometry 2, each
\* with a non-building object (2), a building (3) or both
BootstrapUrbanObjects ==
    InitUrbanObjects \cup
    { [urban_object_id |-> 4, object_geometry_id |-> 2, physical_object_id |-> 3,
       service_id |-> NULL] }

\* territories a project may be given
BootstrapMasks == ProjectMasks \cup { {1}, {2} }

\* add_project_to_db has inserted the project, its territory and its base
\* scenario and is about to crop the public geometries
BootstrapInit ==
    /\ object_geometries_data = InitGeometries
    /\ physical_objects_data = InitPhysicalObjects
    /\ services_data = InitServices
    /\ urban_objects_data \in SUBSET BootstrapUrbanObjects
    /\ projects_data =
          { [project_id |-> 1, user_id |-> "u1", is_regional |-> TRUE, public |-> FALSE,
             territory_id |-> 1],
            [project_id |-> 2, user_id |-> "u1", is_regional |-> FALSE, public |-> FALSE,
             territory_id |-> 1] }
    /\ \E mask \in BootstrapMasks :
          /\ projects_territory_data = (2 :> mask)
          /\ call = [op |-> "add_project", user |-> [id |-> "u1", is_superuser |-> FALSE],
                     public |-> FALSE, is_regional |-> FALSE, territory_id |-> 1,
                     mask |-> mask, project_id |-> 2, scenario_id |-> 2, id_mapping |-> {}]
    /\ scenarios_data =
          { [scenario_id |-> 1, project_id |-> 1, is_based |-> TRUE, parent_id |-> NULL],
            [scenario_id |-> 2, project_id |-> 2, is_based |-> TRUE, parent_id |-> 1] }
    /\ projects_object_geometries_data = {}
    /\ projects_physical_objects_data = {}
    /\ projects_services_data = {}
    /\ projects_urban_objects_data = EmptyBag
    /\ seq_project = 2
    /\ seq_scenario = 2
    /\ seq_geometry = 0
    /\ seq_physical = 0
    /\ committed = [Database EXCEPT
                       !.projects_data = { x \in projects_data : x.project_id = 1 },
                       !.projects_territory_data = <<>>,
                       !.scenarios_data = { x \in scenarios_data : x.scenario_id = 1 }]
    /\ pc = "insert_intersecting_geometries"
    /\ log = <<"add_context_territories", "insert_project", "insert_projects_territory_data",
               "create_project_base_scenario">>
    /\ response = "none"

BootstrapNext ==
    \/ insert_intersecting_geometries
    \/ insert_urban_objects_rows

BootstrapSpec == BootstrapInit /\ [][BootstrapNext]_vars

\* ------------------------------------------------------------------------
\* The merge of the public and the scenario bucket in the flat reads
\* ------------------------------------------------------------------------
MaxPublicObjects == 2

MaxScenarioObjects == 3

\* sequences over a set of at most n elements
SeqsUpTo(S, n) == UNION { [1..k -> S] : k \in 0..n }

\* the service of an entry whose row has none
NoService == [service_id |-> NULL, name |-> "NULL", is_scenario_object |-> FALSE]

\* entries of the public bucket: a public row makes the same entry each time,
\* always with is_scenario_object = False
PublicEntries(op) ==
    IF op = "get_geometries_by_scenario_id"
    THEN { [object_geometry_id |-> g.object_geometry_id, territory_id |-> g.territory_id,
            geometry |-> g.geometry, address |-> g.address, is_scenario_object |-> FALSE] :
           g \in InitGeometries }
    ELSE IF op = "get_physical_objects_by_scenario_id"
    THEN { [physical_object_id |-> po.physical_object_id,
            physical_object_type_id |-> po.physical_object_type_id, name |-> po.name,
            is_scenario_object |-> FALSE] : po \in InitPhysicalObjects }
    ELSE { [object_geometry_id |-> 1, is_scenario_object |-> FALSE,
            physical_object |-> [physical_object_id |-> po.physical_object_id,
                                 name |-> po.name, is_scenario_object |-> FALSE],
            service |-> svc] :
           po \in InitPhysicalObjects,
           svc \in {NoService, [service_id |-> 1, name |-> "n0", is_scenario_object |-> FALSE]} }

\* entries of the scenario bucket: scenario rows with ids 2 and 3, which the
\* public rows have too, and the public rows a join row points to
ScenarioEntries(op) ==
    PublicEntries(op) \cup
    ( IF op = "get_geometries_by_scenario_id"
      THEN { [object_geometry_id |-> i, territory_id |-> 2, geometry |-> {1},
              address |-> "a1", is_scenario_object |-> TRUE] : i \in {2, 3} }
      ELSE IF op = "get_physical_objects_by_scenario_id"
      THEN { [physical_object_id |-> i, physical_object_type_id |-> 1, name |-> "n1",
              is_scenario_object |-> TRUE] : i \in {2, 3} }
      ELSE { [object_geometry_id |-> 1, is_scenario_object |-> flag,
              physical_object |-> po, service |-> svc] :
             flag \in BOOLEAN,
             po \in { [physical_object_id |-> 2, name |-> "n0", is_scenario_object |-> FALSE],
                      [physical_object_id |-> 2, name |-> "n1", is_scenario_object |-> TRUE] },
             svc \in { NoService,
                       [service_id |-> 1, name |-> "n1", is_scenario_object |-> TRUE] } } )

\* the id an entry is grouped by
EntryId(obj) ==
    IF "object_geometry_id" \in DOMAIN obj THEN obj.object_geometry_id
    ELSE obj.physical_object_id

\* faulty variant: one entry per numeric id
RECURSIVE grouped_objects_by_id(_, _)
grouped_objects_by_id(objects, grouped) ==
    IF objects = <<>> THEN grouped
    ELSE LET obj == Head(objects) IN
         grouped_objects_by_id(Tail(objects),
                               IF EntryId(obj) \in DOMAIN grouped THEN grouped
                               ELSE (EntryId(obj) :> obj) @@ grouped)

\* the loop over public_objects + scenario_objects that fills grouped_objects:
\* the first entry of an id goes under the id, a later one with the other
\* value of is_scenario_object under the negated id
RECURSIVE grouped_objects(_, _)
grouped_objects(objects, grouped) ==
    IF objects = <<>> THEN grouped
    ELSE LET obj == Head(objects)
             id == EntryId(obj)
         IN grouped_objects(Tail(objects),
                IF id \notin DOMAIN grouped THEN (id :> obj) @@ grouped
                ELSE IF grouped[id].is_scenario_object # obj.is_scenario_object
                THEN ((0 - id) :> obj) @@ grouped
                ELSE grouped)

\* a flat read has fetched its two buckets, in the order the database gave
MergeInit ==
    /\ object_geometries_data = InitGeometries
    /\ physical_objects_data = InitPhysicalObjects
    /\ services_data = InitServices
    /\ urban_objects_data = InitUrbanObjects
    /\ projects_data = {}
    /\ projects_territory_data = <<>>
    /\ scenarios_data = {}
    /\ projects_object_geometries_data = {}
    /\ projects_physical_objects_data = {}
    /\ projects_services_data = {}
    /\ projects_urban_objects_data = EmptyBag
    /\ seq_project = 0
    /\ seq_scenario = 0
    /\ seq_geometry = 0
    /\ seq_physical = 0
    /\ committed = Database
    /\ pc = "grouped_objects"
    /\ \E op \in {"get_geometries_by_scenario_id", "get_physical_objects_by_scenario_id",
                  "get_geometries_with_all_objects_by_scenario_id"} :
       \E public \in SeqsUpTo(PublicEntries(op), MaxPublicObjects),
          scenario \in SeqsUpTo(ScenarioEntries(op), MaxScenarioObjects) :
           call = [op |-> op, public_objects |-> public, scenario_objects |-> scenario]
    /\ log = <<>>
    /\ response = "none"

\* the read merges the buckets and returns the values of grouped_objects
merge_objects ==
    /\ pc = "grouped_objects"
    /\ call.op # "get_geometries_with_all_objects_by_scenario_id"
    /\ response' = grouped_objects(call.public_objects \o call.scenario_objects, <<>>)
    /\ pc' = "idle"
    /\ UNCHANGED <<public_vars, project_vars, local_vars, seq_vars, committed, call, log>>

\* the key of an object in a dictionary of the nested merge: the id of a
\* public object, the string scenario_<id> of a scenario-local one
GroupKey(id, is_scenario_object) == [id |-> id, scenario |-> is_scenario_object]

\* add_physical_object and add_service: the child is stored under its key
\* unless the dictionary holds an entry under the bare id
add_child(children, child, id) ==
    IF GroupKey(id, FALSE) \in DOMAIN children THEN children
    ELSE (GroupKey(id, child.is_scenario_object) :> child) @@ children

\* the loop of the nested merge over public_objects + scenario_objects
RECURSIVE grouped_with_all_objects(_, _)
grouped_with_all_objects(objects, grouped) ==
    IF objects = <<>> THEN grouped
    ELSE LET obj == Head(objects)
             key == GroupKey(obj.object_geometry_id, obj.is_scenario_object)
             group == IF key \in DOMAIN grouped THEN grouped[key]
                      ELSE [object_geometry_id |-> obj.object_geometry_id,
                            is_scenario_object |-> obj.is_scenario_object,
                            physical_objects |-> <<>>, services |-> <<>>]
             filled == [group EXCEPT
                          !.physical_objects =
                              add_child(@, obj.physical_object,
                                        obj.physical_object.physical_object_id),
                          !.services =
                              IF obj.service = NoService THEN @
                              ELSE add_child(@, obj.service, obj.service.service_id)]
         IN grouped_with_all_objects(Tail(objects), (key :> filled) @@ grouped)

\* the nested read merges the buckets and returns the groups
merge_all_objects ==
    /\ pc = "grouped_objects"
    /\ call.op = "get_geometries_with_all_objects_by_scenario_id"
    /\ response' = grouped_with_all_objects(call.public_objects \o call.scenario_objects, <<>>)
    /\ pc' = "idle"
    /\ UNCHANGED <<public_vars, project_vars, local_vars, seq_vars, committed, call, log>>

MergeNext ==
    \/ merge_objects
    \/ merge_all_objects

MergeSpec == MergeInit /\ [][MergeNext]_vars

\* ------------------------------------------------------------------------
\* The type and function filters of the reads of physical objects
\* ------------------------------------------------------------------------
\* physical_object_functions_dict: function id -> parent_id
physical_object_functions_dict == (1 :> NULL) @@ (2 :> 1)

\* the physical object of a public urban object, as the reads list it
public_physical_object(uo) ==
    LET po == CHOOSE x \in physical_objects_data :
                  x.physical_object_id = uo.physical_object_id
    IN [physical_object_id |-> po.physical_object_id,
        physical_object_type_id |-> po.physical_object_type_id,
        is_scenario_object |-> FALSE]

\* the physical object of a scenario join row, as the reads list it
scenario_physical_object(r) ==
    IF r.physical_object_id # NULL
    THEN LET lp == CHOOSE x \in projects_physical_objects_data :
                       x.physical_object_id = r.physical_object_id
         IN [physical_object_id |-> lp.physical_object_id,
             physical_object_type_id |-> lp.physical_object_type_id,
             is_scenario_object |-> TRUE]
    ELSE public_physical_object([physical_object_id |-> r.public_physical_object_id])

\* get_geometries_with_all_objects_by_scenario_id_from_db: the physical
\* objects of its groups under the two filters
get_geometries_with_all_objects_by_scenario_id(scenario_id, user_id, physical_object_type_id, physical_object_function_id) ==
    LET outcome == get_geometries_outcome(scenario_id, user_id)
        physical_object_functions_cte ==
            recursive_cte(physical_object_functions_dict,
                          {physical_object_function_id} \cap DOMAIN physical_object_functions_dict,
                          FALSE)
        selected(o) ==
            IF physical_object_type_id # NULL
            THEN o.physical_object_type_id = physical_object_type_id
            ELSE physical_object_function_id # NULL =>
                     FunctionOfType(o.physical_object_type_id) \in physical_object_functions_cte
    IN IF outcome # "ok" THEN [error |-> outcome, data |-> {}]
       ELSE IF physical_object_type_id # NULL /\ physical_object_function_id # NULL
       THEN [error |-> "NotFoundByParams", data |-> {}]
       ELSE [error |-> "none",
             data |->
                { public_physical_object(uo) : uo \in
                    { x \in public_urban_objects_query(scenario_id) :
                        IF physical_object_type_id # NULL
                        THEN \E lp \in projects_physical_objects_data :
                                 lp.physical_object_type_id = physical_object_type_id
                        ELSE selected(public_physical_object(x)) } }
                \cup
                { scenario_physical_object(r) : r \in
                    { x \in scenario_urban_objects_query(scenario_id) :
                        selected(scenario_physical_object(x)) } }]

\* get_physical_objects_by_scenario_id
get_physical_objects_by_scenario_id(scenario_id, user_id, physical_object_type_id, physical_object_function_id) ==
    LET outcome == get_geometries_outcome(scenario_id, user_id)
        selected(o) ==
            /\ physical_object_type_id # NULL =>
                   o.physical_object_type_id = physical_object_type_id
            /\ physical_object_function_id # NULL =>
                   FunctionOfType(o.physical_object_type_id) = physical_object_function_id
    IN IF outcome # "ok" THEN [error |-> outcome, data |-> {}]
       ELSE [error |-> "none",
             data |->
                { o \in { public_physical_object(uo) :
                            uo \in public_urban_objects_query(scenario_id) } : selected(o) }
                \cup
                { o \in { scenario_physical_object(r) :
                            r \in scenario_urban_objects_query(scenario_id) } : selected(o) }]

\* get_context_geometries_by_scenario_id_from_db
get_context_geometries_by_scenario_id(scenario_id, user_id, context, physical_object_id, service_id) ==
    LET outcome == get_geometries_outcome(scenario_id, user_id)
        context_territories == context \cap DOMAIN territories_data
        unified_geometry == UNION { territories_geometry[t] : t \in context_territories }
        all_related_territories ==
            recursive_cte(territories_data, context_territories, FALSE) \cup
            recursive_cte(territories_data, context_territories, TRUE)
        objects_in_context ==
            { g \in object_geometries_data :
                /\ g.territory_id \in all_related_territories
                /\ ST_Intersects(g.geometry, unified_geometry) }
    IN IF outcome # "ok" THEN [error |-> outcome, data |-> {}]
       ELSE [error |-> "none",
             data |->
                { [object_geometry_id |-> g.object_geometry_id,
                   territory_id |-> g.territory_id,
                   geometry |-> ST_Intersection(g.geometry, unified_geometry)] :
                  g \in { x \in objects_in_context :
                            \E uo \in urban_objects_data :
                               /\ uo.object_geometry_id = x.object_geometry_id
                               /\ \E po \in physical_objects_data :
                                     po.physical_object_id = uo.physical_object_id
                               /\ physical_object_id # NULL =>
                                      uo.physical_object_id = physical_object_id
                               /\ service_id # NULL => uo.service_id = service_id } }]

\* faulty variant: the public objects that the scenario hides are left out
get_context_physical_objects_without_hidden(scenario_id, user_id, context, physical_object_type_id, physical_object_function_id) ==
    LET outcome == get_geometries_outcome(scenario_id, user_id)
        context_territories == context \cap DOMAIN territories_data
        unified_geometry == UNION { territories_geometry[t] : t \in context_territories }
        objects_in_context ==
            { g.object_geometry_id : g \in
                { x \in object_geometries_data : ST_Intersects(x.geometry, unified_geometry) } }
    IN IF outcome # "ok" THEN [error |-> outcome, data |-> {}]
       ELSE [error |-> "none",
             data |->
                { public_physical_object(uo) : uo \in
                    { x \in urban_objects_data :
                        /\ x.object_geometry_id \in objects_in_context
                        /\ x.urban_object_id \notin public_urban_object_ids(scenario_id) } }]

\* get_context_physical_objects_by_scenario_id_from_db
get_context_physical_objects_by_scenario_id(scenario_id, user_id, context, physical_object_type_id, physical_object_function_id) ==
    LET outcome == get_geometries_outcome(scenario_id, user_id)
        context_territories == context \cap DOMAIN territories_data
        unified_geometry == UNION { territories_geometry[t] : t \in context_territories }
        all_related_territories ==
            recursive_cte(territories_data, context_territories, FALSE) \cup
            recursive_cte(territories_data, context_territories, TRUE)
        objects_in_context ==
            { g.object_geometry_id : g \in
                { x \in object_geometries_data :
                    /\ x.territory_id \in all_related_territories
                    /\ ST_Intersects(x.geometry, unified_geometry) } }
    IN IF outcome # "ok" THEN [error |-> outcome, data |-> {}]
       ELSE [error |-> "none",
             data |->
                { o \in { public_physical_object(uo) : uo \in
                            { x \in urban_objects_data :
                                /\ x.object_geometry_id \in objects_in_context
                                /\ \E po \in physical_objects_data :
                                      po.physical_object_id = x.physical_object_id } } :
                    /\ physical_object_type_id # NULL =>
                           o.physical_object_type_id = physical_object_type_id
                    /\ physical_object_function_id # NULL =>
                           FunctionOfType(o.physical_object_type_id)
                               = physical_object_function_id }]

\* scenario physical objects and join rows a scenario may hold
FilterPhysicalObjects ==
    { [physical_object_id |-> 1, public_physical_object_id |-> NULL,
       physical_object_type_id |-> 1, name |-> "n1"],
      [physical_object_id |-> 2, public_physical_object_id |-> NULL,
       physical_object_type_id |-> 2, name |-> "n1"] }

FilterRows ==
    { JoinRow(2, NULL, NULL, 1, NULL, 1, NULL, NULL),
      JoinRow(2, NULL, NULL, 2, NULL, 1, NULL, NULL),
      JoinRow(2, 1, NULL, NULL, NULL, NULL, NULL, NULL),
      JoinRow(2, 2, NULL, NULL, NULL, NULL, NULL, NULL) }

\* a read of the physical objects of a scenario is called
FilterInit ==
    /\ object_geometries_data = InitGeometries
    /\ physical_objects_data = InitPhysicalObjects
    /\ services_data = InitServices
    /\ urban_objects_data = InitUrbanObjects
    /\ projects_data =
          { [project_id |-> 1, user_id |-> "u1", is_regional |-> TRUE, public |-> FALSE,
             territory_id |-> 1],
            [project_id |-> 2, user_id |-> "u1", is_regional |-> FALSE, public |-> FALSE,
             territory_id |-> 1] }
    /\ projects_territory_data = (2 :> {1, 2})
    /\ scenarios_data =
          { [scenario_id |-> 1, project_id |-> 1, is_based |-> TRUE, parent_id |-> NULL],
            [scenario_id |-> 2, project_id |-> 2, is_based |-> TRUE, parent_id |-> 1] }
    /\ projects_object_geometries_data = {}
    /\ projects_physical_objects_data = FilterPhysicalObjects
    /\ projects_services_data = {}
    /\ \E rows \in SUBSET FilterRows : projects_urban_objects_data = RowsOf(rows)
    /\ seq_project = 2
    /\ seq_scenario = 2
    /\ seq_geometry = 0
    /\ seq_physical = 2
    /\ committed = Database
    /\ pc = "read"
    /\ call \in { [op |-> op, scenario_id |-> scenario_id, user_id |-> "u1", context |-> {2},
                   physical_object_type_id |-> type, physical_object_function_id |-> function] :
                  op \in {"get_geometries_with_all_objects_by_scenario_id",
                          "get_physical_objects_by_scenario_id",
                          "get_context_physical_objects_by_scenario_id"},
                  scenario_id \in {2, 3},
                  type \in {NULL} \cup DOMAIN physical_object_types_dict,
                  function \in {NULL} \cup DOMAIN physical_object_functions_dict }
    /\ log = <<>>
    /\ response = "none"

\* the read returns its result or raises
returns(result) ==
    /\ pc = "read"
    /\ response' = result
    /\ pc' = "idle"
    /\ UNCHANGED <<public_vars, project_vars, local_vars, seq_vars, committed, call, log>>

read_with_all_objects ==
    /\ call.op = "get_geometries_with_all_objects_by_scenario_id"
    /\ returns(get_geometries_with_all_objects_by_scenario_id(
                   call.scenario_id, call.user_id, call.physical_object_type_id,
                   call.physical_object_function_id))

read_physical_objects ==
    /\ call.op = "get_physical_objects_by_scenario_id"
    /\ returns(get_physical_objects_by_scenario_id(
                   call.scenario_id, call.user_id, call.physical_object_type_id,
                   call.physical_object_function_id))

read_context_physical_objects ==
    /\ call.op = "get_context_physical_objects_by_scenario_id"
    /\ returns(get_context_physical_objects_by_scenario_id(
                   call.scenario_id, call.user_id, call.context, call.physical_object_type_id,
                   call.physical_object_function_id))

FilterNext ==
    \/ read_with_all_objects
    \/ read_physical_objects
    \/ read_context_physical_objects

FilterSpec == FilterInit /\ [][FilterNext]_vars

\* ------------------------------------------------------------------------
\* The evaluation of a recursive CTE over a drawn parent_id column
\* ------------------------------------------------------------------------
MaxTerritories == 3

\* a query with a recursive CTE is executed: the non-recursive term has given
\* the first working table (the territory or function named by the call, or
\* the context territories of the project)
TraversalInit ==
    /\ object_geometries_data = InitGeometries
    /\ physical_objects_data = InitPhysicalObjects
    /\ services_data = InitServices
    /\ urban_objects_data = InitUrbanObjects
    /\ projects_data = {}
    /\ projects_territory_data = <<>>
    /\ scenarios_data = {}
    /\ projects_object_geometries_data = {}
    /\ projects_physical_objects_data = {}
    /\ projects_services_data = {}
    /\ projects_urban_objects_data = EmptyBag
    /\ seq_project = 0
    /\ seq_scenario = 0
    /\ seq_geometry = 0
    /\ seq_physical = 0
    /\ committed = Database
    /\ pc = "recursive_term"
    /\ call \in { [op |-> "recursive_cte", parent_of |-> parent_of, upwards |-> upwards,
                   working |-> working, result |-> {}] :
                  parent_of \in [1..MaxTerritories -> {NULL} \cup 1..MaxTerritories],
                  upwards \in BOOLEAN,
                  working \in SUBSET (1..MaxTerritories) }
    /\ log = <<>>
    /\ response = "none"

\* one iteration of UNION ALL: the working table is appended to the result
\* and the recursive term, evaluated over it, gives the next working table
cte_iteration ==
    /\ pc = "recursive_term"
    /\ call.working # {}
    /\ call' = [call EXCEPT !.result = @ \cup call.working,
                            !.working = cte_term(call.parent_of, call.working, call.upwards)]
    /\ UNCHANGED <<public_vars, project_vars, local_vars, seq_vars, committed, pc, log,
                   response>>

\* the working table is empty: the query returns the rows gathered in
\* call.result
cte_returns ==
    /\ pc = "recursive_term"
    /\ call.working = {}
    /\ response' = "ok"
    /\ pc' = "idle"
    /\ UNCHANGED <<public_vars, project_vars, local_vars, seq_vars, committed, call, log>>

TraversalNext ==
    \/ cte_iteration
    \/ cte_returns

\* the database goes on with a query it has begun
TraversalSpec == TraversalInit /\ [][TraversalNext]_vars /\ WF_vars(TraversalNext)

\* ------------------------------------------------------------------------
\* add_context_territories over a drawn territory hierarchy
\* ------------------------------------------------------------------------
\* territories 1 > 2 > {3 > 5, 4} with their levels and geometries; any of
\* them may be flagged as a city
ContextTerritories(cities) ==
    { [territory_id |-> 1, parent_id |-> NULL, level |-> 1, geometry |-> {1, 2, 3},
       name |-> "t1", is_city |-> 1 \in cities],
      [territory_id |-> 2, parent_id |-> 1, level |-> 2, geometry |-> {1, 2, 3},
       name |-> "t2", is_city |-> 2 \in cities],
      [territory_id |-> 3, parent_id |-> 2, level |-> 3, geometry |-> {1},
       name |-> "t3", is_city |-> 3 \in cities],
      [territory_id |-> 4, parent_id |-> 2, level |-> 3, geometry |-> {3},
       name |-> "t4", is_city |-> 4 \in cities],
      [territory_id |-> 5, parent_id |-> 3, level |-> 4, geometry |-> {1},
       name |-> "t5", is_city |-> 5 \in cities] }

\* add_project_to_db calls add_context_territories for the project it is given
ContextInit ==
    /\ object_geometries_data = InitGeometries
    /\ physical_objects_data = InitPhysicalObjects
    /\ services_data = InitServices
    /\ urban_objects_data = InitUrbanObjects
    /\ projects_data = {}
    /\ projects_territory_data = <<>>
    /\ scenarios_data = {}
    /\ projects_object_geometries_data = {}
    /\ projects_physical_objects_data = {}
    /\ projects_services_data = {}
    /\ projects_urban_objects_data = EmptyBag
    /\ seq_project = 0
    /\ seq_scenario = 0
    /\ seq_geometry = 0
    /\ seq_physical = 0
    /\ committed = Database
    /\ pc = "add_context_territories"
    /\ call \in { [op |-> "add_context_territories", territories |-> ContextTerritories(cities),
                   territory_id |-> territory_id, geometry |-> geometry] :
                  cities \in SUBSET (1..5), territory_id \in 1..6, geometry \in {{1}, {1, 2}} }
    /\ log = <<>>
    /\ response = "none"

\* add_context_territories raises or fills project.properties
context_territories_added ==
    /\ pc = "add_context_territories"
    /\ call.op = "add_context_territories"
    /\ response' = project_properties(call.territories, call.territory_id, call.geometry)
    /\ pc' = "idle"
    /\ UNCHANGED <<public_vars, project_vars, local_vars, seq_vars, committed, call, log>>

ContextNext == context_territories_added

ContextSpec == ContextInit /\ [][ContextNext]_vars

\* ------------------------------------------------------------------------
\* add_project_to_db for an ordinary project over drawn territories
\* ------------------------------------------------------------------------
\* project territories: the two of the lifecycle and one that meets no public
\* geometry
CreateMasks == ProjectMasks \cup { {4} }

\* add_project_to_db is called for an ordinary project; a regional project
\* exists, with or without a base scenario
CreateInit ==
    /\ object_geometries_data = InitGeometries
    /\ physical_objects_data = InitPhysicalObjects
    /\ services_data = InitServices
    /\ urban_objects_data = InitUrbanObjects
    /\ \E regional_territory \in DOMAIN territories_data :
          projects_data =
             { [project_id |-> 1, user_id |-> "u1", is_regional |-> TRUE, public |-> FALSE,
                territory_id |-> regional_territory] }
    /\ projects_territory_data = <<>>
    /\ scenarios_data \in
          { {}, { [scenario_id |-> 1, project_id |-> 1, is_based |-> TRUE,
                   parent_id |-> NULL] } }
    /\ projects_object_geometries_data = {}
    /\ projects_physical_objects_data = {}
    /\ projects_services_data = {}
    /\ projects_urban_objects_data = EmptyBag
    /\ seq_project = 1
    /\ seq_scenario = 1
    /\ seq_geometry = 0
    /\ seq_physical = 0
    /\ committed = Database
    /\ pc = "add_context_territories"
    /\ call \in { [op |-> "add_project", user |-> [id |-> "u1", is_superuser |-> FALSE],
                   public |-> FALSE, is_regional |-> FALSE, territory_id |-> territory_id,
                   mask |-> mask, territories |-> territories_rows(cities),
                   properties |-> NoProperties,
                   project_id |-> NULL, scenario_id |-> NULL, id_mapping |-> {}] :
                  territory_id \in DOMAIN territories_data \cup TerritoryInputs,
                  mask \in CreateMasks, cities \in SUBSET DOMAIN territories_data }
    /\ log = <<>>
    /\ response = "none"

CreateNext ==
    \/ add_context_territories
    \/ insert_project
    \/ insert_projects_territory_data
    \/ create_project_base_scenario
    \/ insert_intersecting_geometries
    \/ insert_urban_objects_rows
    \/ insert_functional_zones
    \/ save_indicators
    \/ read_result
    \/ kafka_send
    \/ commit
    \/ return
    \/ statement_fails

CreateSpec == CreateInit /\ [][CreateNext]_vars

\* ------------------------------------------------------------------------
\* asyncio.gather(copy_physical_objects, copy_services) on the connection of
\* copy_urban_objects_from_regional_scenario
\* ------------------------------------------------------------------------
\* scenario physical objects and services of the regional scenario
GatherPhysicalObjects ==
    { [physical_object_id |-> 1, public_physical_object_id |-> NULL,
       physical_object_type_id |-> 1, name |-> "n1"],
      [physical_object_id |-> 2, public_physical_object_id |-> 2,
       physical_object_type_id |-> 1, name |-> "n0"] }

GatherServices ==
    { [service_id |-> 1, public_service_id |-> NULL, name |-> "n1"],
      [service_id |-> 2, public_service_id |-> 1, name |-> "n0"] }

\* the two coroutines handed to asyncio.gather
Tasks == {"copy_physical_objects", "copy_services"}

\* copy_urban_objects_from_regional_scenario has gathered phys_ids and svc_ids
\* and calls asyncio.gather
GatherInit ==
    /\ object_geometries_data = InitGeometries
    /\ physical_objects_data = InitPhysicalObjects
    /\ services_data = InitServices
    /\ urban_objects_data = InitUrbanObjects
    /\ projects_data =
          { [project_id |-> 1, user_id |-> "u1", is_regional |-> TRUE, public |-> FALSE,
             territory_id |-> 1],
            [project_id |-> 2, user_id |-> "u1", is_regional |-> FALSE, public |-> FALSE,
             territory_id |-> 1] }
    /\ \E mask \in ProjectMasks : projects_territory_data = (2 :> mask)
    /\ scenarios_data =
          { [scenario_id |-> 1, project_id |-> 1, is_based |-> TRUE, parent_id |-> NULL],
            [scenario_id |-> 2, project_id |-> 2, is_based |-> TRUE, parent_id |-> 1] }
    /\ projects_object_geometries_data = {}
    /\ projects_physical_objects_data = GatherPhysicalObjects
    /\ projects_services_data = GatherServices
    /\ projects_urban_objects_data = EmptyBag
    /\ seq_project = 2
    /\ seq_scenario = 2
    /\ seq_geometry = 0
    /\ seq_physical = Cardinality(GatherPhysicalObjects)
    /\ committed = [Database EXCEPT !.scenarios_data = { s \in scenarios_data : s.scenario_id # 2 }]
    /\ pc = "gather"
    /\ call \in { [op |-> "gather",
                   ids |-> ("copy_physical_objects" :> phys_ids) @@ ("copy_services" :> svc_ids),
                   at |-> [t \in Tasks |-> "start"],
                   executing |-> {},
                   map |-> [t \in Tasks |-> <<>>]] :
                  phys_ids \in SUBSET { lp.physical_object_id : lp \in GatherPhysicalObjects },
                  svc_ids \in SUBSET { ls.service_id : ls \in GatherServices } }
    /\ log = <<>>
    /\ response = "none"

\* a step of one of the two coroutines that writes no table
task_step(c) ==
    /\ call' = c
    /\ UNCHANGED <<public_vars, project_vars, local_vars, seq_vars, committed, pc, log, response>>

\* if not ids: return {}
copy_returns_empty ==
    \E t \in Tasks :
        /\ pc = "gather"
        /\ call.at[t] = "start"
        /\ call.ids[t] = {}
        /\ task_step([call EXCEPT !.at[t] = "done"])

\* await conn.execute(select ...): the coroutine hands its statement to the
\* connection and is suspended until the result is there
execute_select ==
    \E t \in Tasks :
        /\ pc = "gather"
        /\ call.at[t] = "start"
        /\ call.ids[t] # {}
        /\ task_step([call EXCEPT !.at[t] = "select", !.executing = @ \cup {t}])

\* the result of the select is there
select_returns ==
    \E t \in Tasks :
        /\ pc = "gather"
        /\ call.at[t] = "select"
        /\ task_step([call EXCEPT !.at[t] = "selected", !.executing = @ \ {t}])

\* await conn.execute(insert ... returning)
execute_insert ==
    \E t \in Tasks :
        /\ pc = "gather"
        /\ call.at[t] = "selected"
        /\ task_step([call EXCEPT !.at[t] = "insert", !.executing = @ \cup {t}])

\* the insert is done and the coroutine returns dict(zip(ids, new_ids))
insert_returns ==
    \E t \in Tasks :
        /\ pc = "gather"
        /\ call.at[t] = "insert"
        /\ LET mapping == IF t = "copy_physical_objects"
                          THEN copy_map(call.ids[t], seq_physical + 1)
                          ELSE copy_map(call.ids[t], last_service_id + 1)
           IN
           /\ IF t = "copy_physical_objects"
              THEN /\ projects_physical_objects_data' =
                          projects_physical_objects_data \cup copy_physical_objects(mapping)
                   /\ seq_physical' = seq_physical + Cardinality(call.ids[t])
                   /\ UNCHANGED projects_services_data
              ELSE /\ projects_services_data' =
                          projects_services_data \cup copy_services(mapping)
                   /\ UNCHANGED <<projects_physical_objects_data, seq_physical>>
           /\ call' = [call EXCEPT !.at[t] = "done", !.executing = @ \ {t}, !.map[t] = mapping]
        /\ UNCHANGED <<public_vars, project_vars, projects_object_geometries_data,
                       projects_urban_objects_data, seq_project, seq_scenario, seq_geometry,
                       committed, pc, log, response>>

\* the connection is handed a statement while it executes another one: the
\* driver may queue it or refuse it
connection_refuses ==
    /\ pc = "gather"
    /\ Cardinality(call.executing) > 1
    /\ raise("InterfaceError")

\* both coroutines have returned: asyncio.gather returns phys_map, svc_map
gather_returns ==
    /\ pc = "gather"
    /\ \A t \in Tasks : call.at[t] = "done"
    /\ pc' = "idle"
    /\ response' = "ok"
    /\ UNCHANGED <<public_vars, project_vars, local_vars, seq_vars, committed, call, log>>

GatherNext ==
    \/ copy_returns_empty
    \/ execute_select
    \/ select_returns
    \/ execute_insert
    \/ insert_returns
    \/ connection_refuses
    \/ gather_returns

GatherSpec == GatherInit /\ [][GatherNext]_vars

\* ------------------------------------------------------------------------
\* The physical object type filter of the reads with all objects
\* ------------------------------------------------------------------------
\* services_data.c.service_type_id of the services of the dataset
services_service_type_id == (1 :> 1)

\* the service type the outer join on services_data gives a public urban object
joined_service_type_id(uo) ==
    IF uo.service_id \in DOMAIN services_service_type_id
    THEN services_service_type_id[uo.service_id] ELSE NULL

\* get_context_geometries_with_all_objects_by_scenario_id_from_db: the
\* physical objects of its groups
get_context_geometries_with_all_objects_by_scenario_id(scenario_id, user_id, context, physical_object_type_id, service_type_id, physical_object_function_id) ==
    LET outcome == get_geometries_outcome(scenario_id, user_id)
        context_territories == context \cap DOMAIN territories_data
        unified_geometry == UNION { territories_geometry[t] : t \in context_territories }
        all_related_territories ==
            recursive_cte(territories_data, context_territories, FALSE) \cup
            recursive_cte(territories_data, context_territories, TRUE)
        context_object_ids ==
            { g.object_geometry_id : g \in
                { x \in object_geometries_data :
                    /\ x.territory_id \in all_related_territories
                    /\ ST_Intersects(x.geometry, unified_geometry) } }
        physical_object_functions_cte ==
            recursive_cte(physical_object_functions_dict,
                          {physical_object_function_id} \cap DOMAIN physical_object_functions_dict,
                          FALSE)
        statement ==
            { uo \in urban_objects_data :
                /\ uo.object_geometry_id \in context_object_ids
                /\ \E po \in physical_objects_data :
                      po.physical_object_id = uo.physical_object_id
                /\ IF physical_object_type_id # NULL
                   THEN joined_service_type_id(uo) = service_type_id
                   ELSE physical_object_function_id # NULL =>
                            FunctionOfType(public_physical_object(uo).physical_object_type_id)
                                \in physical_object_functions_cte
                /\ service_type_id # NULL => joined_service_type_id(uo) = service_type_id }
    IN IF outcome # "ok" THEN [error |-> outcome, data |-> {}]
       ELSE IF physical_object_type_id # NULL /\ physical_object_function_id # NULL
       THEN [error |-> "NotFoundByParams", data |-> {}]
       ELSE [error |-> "none", data |-> { public_physical_object(uo) : uo \in statement }]

\* a read with all objects is called in a scenario whose local tables hold
\* any of the drawn physical objects and join rows
TypeFilterInit ==
    /\ object_geometries_data = InitGeometries
    /\ physical_objects_data = InitPhysicalObjects
    /\ services_data = InitServices
    /\ urban_objects_data = InitUrbanObjects
    /\ projects_data =
          { [project_id |-> 1, user_id |-> "u1", is_regional |-> TRUE, public |-> FALSE,
             territory_id |-> 1],
            [project_id |-> 2, user_id |-> "u1", is_regional |-> FALSE, public |-> FALSE,
             territory_id |-> 1] }
    /\ projects_territory_data = (2 :> {1, 2})
    /\ scenarios_data =
          { [scenario_id |-> 1, project_id |-> 1, is_based |-> TRUE, parent_id |-> NULL],
            [scenario_id |-> 2, project_id |-> 2, is_based |-> TRUE, parent_id |-> 1] }
    /\ projects_object_geometries_data = {}
    /\ projects_physical_objects_data \in SUBSET FilterPhysicalObjects
    /\ projects_services_data = {}
    /\ \E rows \in SUBSET FilterRows :
          /\ \A r \in rows : r.physical_object_id # NULL =>
                \E lp \in projects_physical_objects_data :
                    lp.physical_object_id = r.physical_object_id
          /\ projects_urban_objects_data = RowsOf(rows)
    /\ seq_project = 2
    /\ seq_scenario = 2
    /\ seq_geometry = 0
    /\ seq_physical = 2
    /\ committed = Database
    /\ pc = "read"
    /\ call \in { [op |-> "get_geometries_with_all_objects_by_scenario_id",
                   scenario_id |-> 2, user_id |-> "u1", context |-> {2},
                   physical_object_type_id |-> type, service_type_id |-> NULL,
                   physical_object_function_id |-> NULL] :
                  type \in {NULL} \cup DOMAIN physical_object_types_dict }
               \cup
               { [op |-> "get_context_geometries_with_all_objects_by_scenario_id",
                   scenario_id |-> 2, user_id |-> "u1", context |-> {2},
                   physical_object_type_id |-> type, service_type_id |-> service_type,
                   physical_object_function_id |-> NULL] :
                  type \in {NULL} \cup DOMAIN physical_object_types_dict,
                  service_type \in {NULL} \cup {services_service_type_id[s] :
                                                  s \in DOMAIN services_service_type_id} }
    /\ log = <<>>
    /\ response = "none"

read_with_all_objects_of_type ==
    /\ call.op = "get_geometries_with_all_objects_by_scenario_id"
    /\ returns(get_geometries_with_all_objects_by_scenario_id(
                   call.scenario_id, call.user_id, call.physical_object_type_id,
                   call.physical_object_function_id))

read_context_with_all_objects ==
    /\ call.op = "get_context_geometries_with_all_objects_by_scenario_id"
    /\ returns(get_context_geometries_with_all_objects_by_scenario_id(
                   call.scenario_id, call.user_id, call.context, call.physical_object_type_id,
                   call.service_type_id, call.physical_object_function_id))

TypeFilterNext ==
    \/ read_with_all_objects_of_type
    \/ read_context_with_all_objects

TypeFilterSpec == TypeFilterInit /\ [][TypeFilterNext]_vars


\* ========================================================================
\* Properties
\* ========================================================================
ScenarioIds == { s.scenario_id : s \in scenarios_data }

\* join rows of a scenario that carry slots
SlotRows(scenario_id) ==
    { r \in DOMAIN projects_urban_objects_data :
        r.scenario_id = scenario_id /\ r.public_urban_object_id = NULL }

\* scenario geometries with a given public source that join rows of the scenario reference
GeometryShadows(scenario_id, public_id) ==
    { lg \in projects_object_geometries_data :
        /\ lg.public_object_geometry_id = public_id
        /\ \E r \in SlotRows(scenario_id) : r.object_geometry_id = lg.object_geometry_id }

\* scenario physical objects with a given public source that join rows of the scenario reference
PhysicalShadows(scenario_id, public_id) ==
    { lp \in projects_physical_objects_data :
        /\ lp.public_physical_object_id = public_id
        /\ \E r \in SlotRows(scenario_id) : r.physical_object_id = lp.physical_object_id }

PublicGeometryIds == { g.object_geometry_id : g \in object_geometries_data }

PublicPhysicalIds == { po.physical_object_id : po \in physical_objects_data }

\* the public geometry lies within the territory of the scenario's project
WithinTerritory(scenario_id, object_geometry_id) ==
    ST_Within(public_geometry_of(object_geometry_id),
              project_geometry(ProjectOf(scenario_id).project_id))

\* C1 (as claimed): for every scenario S and every public id P of one kind, at
\* most one scenario-local row whose public source is P is referenced by the
\* join rows of S.
C1_OneShadowPerPublicId ==
    \A scenario_id \in ScenarioIds :
        /\ \A id \in PublicGeometryIds :
              Cardinality(GeometryShadows(scenario_id, id)) <= 1
        /\ \A id \in PublicPhysicalIds :
              Cardinality(PhysicalShadows(scenario_id, id)) <= 1

\* public id a slot of a join row resolves to: its public pointer, or the
\* public source of the scenario row it names
ResolvedGeometry(r) ==
    IF r.public_object_geometry_id # NULL THEN r.public_object_geometry_id
    ELSE IF \E lg \in projects_object_geometries_data :
                lg.object_geometry_id = r.object_geometry_id
    THEN (CHOOSE lg \in projects_object_geometries_data :
              lg.object_geometry_id = r.object_geometry_id).public_object_geometry_id
    ELSE NULL

ResolvedPhysical(r) ==
    IF r.public_physical_object_id # NULL THEN r.public_physical_object_id
    ELSE IF \E lp \in projects_physical_objects_data :
                lp.physical_object_id = r.physical_object_id
    THEN (CHOOSE lp \in projects_physical_objects_data :
              lp.physical_object_id = r.physical_object_id).public_physical_object_id
    ELSE NULL

\* a join row of the scenario that stands for the public urban object
ReplacementRows(scenario_id, uo) ==
    { r \in SlotRows(scenario_id) :
        /\ ResolvedGeometry(r) = uo.object_geometry_id
        /\ ResolvedPhysical(r) = uo.physical_object_id }

\* C6: in every state and for every scenario S, a public urban object that a
\* join row of S replaces is hidden by a public_urban_object_id row of S, so
\* the read never returns it both in the public bucket and through that row.
C6_NoDoubleBucket ==
    \A scenario_id \in ScenarioIds : \A uo \in urban_objects_data :
        ReplacementRows(scenario_id, uo) # {} =>
            /\ uo.urban_object_id \in public_urban_object_ids(scenario_id)
            /\ uo \notin public_urban_objects_query(scenario_id)

\* a scenario that replaces a public urban object lying within its territory
C6_Witness ==
    \E scenario_id \in ScenarioIds : \E uo \in urban_objects_data :
        /\ ReplacementRows(scenario_id, uo) # {}
        /\ WithinTerritory(scenario_id, uo.object_geometry_id)

ExactlyOne(local, public) == (local # NULL) # (public # NULL)

AtMostOne(local, public) == ~(local # NULL /\ public # NULL)

AllSlotRows == { r \in DOMAIN projects_urban_objects_data : r.public_urban_object_id = NULL }

\* C7 (as claimed): every join row without public_urban_object_id has, in each
\* of its three slots, exactly one of the local id and the public pointer set.
C7_ExactlyOnePerSlot ==
    \A r \in AllSlotRows :
        /\ ExactlyOne(r.object_geometry_id, r.public_object_geometry_id)
        /\ ExactlyOne(r.physical_object_id, r.public_physical_object_id)
        /\ ExactlyOne(r.service_id, r.public_service_id)

\* C7 (amended): every join row without public_urban_object_id has exactly one
\* of the local id and the public pointer set in its geometry slot and in its
\* physical object slot, and at most one of them in its service slot.
C7_ExactlyOneGeometryAndPhysical ==
    \A r \in AllSlotRows :
        /\ ExactlyOne(r.object_geometry_id, r.public_object_geometry_id)
        /\ ExactlyOne(r.physical_object_id, r.public_physical_object_id)
        /\ AtMostOne(r.service_id, r.public_service_id)

\* rows of every shape: local and public geometry, local and public physical
\* object, with and without a service
C7_Witness ==
    /\ \E r \in AllSlotRows : r.object_geometry_id # NULL /\ r.public_physical_object_id # NULL
                                 /\ r.public_service_id # NULL
    /\ \E r \in AllSlotRows : r.public_object_geometry_id # NULL /\ r.physical_object_id # NULL
    /\ \E r \in AllSlotRows : r.service_id = NULL /\ r.public_service_id = NULL

\* C8: no slot of a join row has both its local id and its public pointer set,
\* and a join row with public_urban_object_id set has every slot column null.
C8_SlotsDisjoint ==
    \A r \in DOMAIN projects_urban_objects_data :
        /\ AtMostOne(r.object_geometry_id, r.public_object_geometry_id)
        /\ AtMostOne(r.physical_object_id, r.public_physical_object_id)
        /\ AtMostOne(r.service_id, r.public_service_id)
        /\ r.public_urban_object_id # NULL =>
              /\ r.object_geometry_id = NULL /\ r.public_object_geometry_id = NULL
              /\ r.physical_object_id = NULL /\ r.public_physical_object_id = NULL
              /\ r.service_id = NULL /\ r.public_service_id = NULL

\* a scenario with hiding rows and with rows whose pointer was redirected to a
\* scenario geometry made by put or patch
C8_Witness ==
    \E scenario_id \in ScenarioIds :
        /\ public_urban_object_ids(scenario_id) # {}
        /\ \E r \in SlotRows(scenario_id) :
              /\ r.object_geometry_id # NULL
              /\ r.physical_object_id # NULL
              /\ ResolvedGeometry(r) # NULL
              /\ ResolvedPhysical(r) # NULL

\* C9: no step of any scenario operation inserts, updates or deletes a row of
\* the public geometry, physical object, service or urban object tables.
C9_PublicTablesUntouched == [][UNCHANGED public_vars]_vars

\* a scenario in which public objects were deleted and edited: it hides every
\* public urban object of its territory and keeps a shadow
C9_Witness ==
    \E scenario_id \in ScenarioIds :
        /\ \E uo \in urban_objects_data : WithinTerritory(scenario_id, uo.object_geometry_id)
        /\ \A uo \in urban_objects_data :
              WithinTerritory(scenario_id, uo.object_geometry_id) =>
                  /\ uo.urban_object_id \in public_urban_object_ids(scenario_id)
                  /\ ReplacementRows(scenario_id, uo) = {}
        /\ \E id \in PublicPhysicalIds : PhysicalShadows(scenario_id, id) # {}

\* a successful put of a public geometry in a scenario
put_public_geometry_step(scenario_id, object_geometry_id) ==
    \E input \in GeometryPutInputs, user \in Callers :
        write_object_geometry(input, scenario_id, object_geometry_id, FALSE, user.id)

\* a successful put or patch of a public geometry in a scenario
write_public_geometry_step(scenario_id, object_geometry_id) ==
    \E input \in GeometryPutInputs \cup GeometryPatchInputs, user \in Callers :
        write_object_geometry(input, scenario_id, object_geometry_id, FALSE, user.id)

\* a successful put of a public physical object in a scenario
put_public_physical_step(scenario_id, physical_object_id) ==
    \E input \in PhysicalPutInputs, user \in Callers :
        write_physical_object(input, scenario_id, physical_object_id, FALSE, user.id)

\* a successful put or patch of a public physical object in a scenario
write_public_physical_step(scenario_id, physical_object_id) ==
    \E input \in PhysicalPutInputs \cup PhysicalPatchInputs, user \in Callers :
        write_physical_object(input, scenario_id, physical_object_id, FALSE, user.id)

\* some public urban object of the physical object lies within the territory
PhysicalWithinTerritory(scenario_id, physical_object_id) ==
    \E uo \in urban_objects_data :
        /\ uo.physical_object_id = physical_object_id
        /\ WithinTerritory(scenario_id, uo.object_geometry_id)

OwnerOf(scenario_id) == ProjectOf(scenario_id).user_id

\* every further put or patch of the public geometry is refused as already existing
GeometryWriteRefused(scenario_id, object_geometry_id) ==
    \A input \in GeometryPutInputs \cup GeometryPatchInputs :
        write_object_geometry_outcome(input, scenario_id, object_geometry_id, FALSE,
                                      OwnerOf(scenario_id)) = "AlreadyExists"

PhysicalWriteRefused(scenario_id, physical_object_id) ==
    \A input \in PhysicalPutInputs \cup PhysicalPatchInputs :
        write_physical_object_outcome(input, scenario_id, physical_object_id, FALSE,
                                      OwnerOf(scenario_id)) = "AlreadyExists"

\* C2 (as claimed): once a put of a public geometry lying within the project
\* territory has succeeded in scenario S, a further put or patch of it in S
\* with is_scenario_object = false fails with AlreadyExists, whatever the
\* number of public urban objects that use it; the same for a public physical
\* object.
C2_SecondWriteAlreadyExists ==
    [][\A scenario_id \in ScenarioIds :
          /\ \A id \in PublicGeometryIds :
                (WithinTerritory(scenario_id, id) /\ put_public_geometry_step(scenario_id, id))
                    => GeometryWriteRefused(scenario_id, id)'
          /\ \A id \in PublicPhysicalIds :
                (PhysicalWithinTerritory(scenario_id, id)
                    /\ put_public_physical_step(scenario_id, id))
                    => PhysicalWriteRefused(scenario_id, id)']_vars

\* C3 (as claimed): after a successful put or patch of a public geometry or
\* physical object E in scenario S of an ordinary project, exactly one
\* scenario-local row whose public source is E is referenced by S, and no join
\* row of S still holds E as the public pointer of that slot.
C3_ExactlyOneShadowAfterWrite ==
    [][\A scenario_id \in { x \in ScenarioIds : ~ProjectOf(x).is_regional } :
          /\ \A id \in PublicGeometryIds :
                write_public_geometry_step(scenario_id, id) =>
                    /\ Cardinality(GeometryShadows(scenario_id, id)') = 1
                    /\ \A r \in SlotRows(scenario_id)' : r.public_object_geometry_id # id
          /\ \A id \in PublicPhysicalIds :
                write_public_physical_step(scenario_id, id) =>
                    /\ Cardinality(PhysicalShadows(scenario_id, id)') = 1
                    /\ \A r \in SlotRows(scenario_id)' : r.public_physical_object_id # id]_vars

\* C10 (as claimed): a delete with is_scenario_object = false of a public
\* geometry or physical object that already has a shadow in scenario S is
\* refused with AlreadyExists.
C10_DeleteOfShadowedRefused ==
    \A scenario_id \in ScenarioIds :
        /\ \A id \in PublicGeometryIds :
              GeometryShadows(scenario_id, id) # {} =>
                  delete_object_geometry_outcome(scenario_id, id, FALSE,
                                                 OwnerOf(scenario_id)) = "AlreadyExists"
        /\ \A id \in PublicPhysicalIds :
              PhysicalShadows(scenario_id, id) # {} =>
                  delete_physical_object_outcome(scenario_id, id, FALSE,
                                                 OwnerOf(scenario_id)) = "AlreadyExists"

\* the scenario has no row about the public geometry yet: no shadow, no pointer
\* to it, none of its public urban objects hidden
NotYetEdited(scenario_id, object_geometry_id) ==
    /\ GeometryShadows(scenario_id, object_geometry_id) = {}
    /\ \A r \in SlotRows(scenario_id) : r.public_object_geometry_id # object_geometry_id
    /\ \A uo \in urban_objects_data :
          uo.object_geometry_id = object_geometry_id =>
              uo.urban_object_id \notin public_urban_object_ids(scenario_id)

\* entries of the read that stand for the public geometry: the public geometry
\* itself, or a scenario geometry whose public source it is
EntriesFor(scenario_id, object_geometry_id) ==
    { o \in get_geometries_by_scenario_id(scenario_id) :
        \/ ~o.is_scenario_object /\ o.object_geometry_id = object_geometry_id
        \/ /\ o.is_scenario_object
           /\ \E lg \in projects_object_geometries_data :
                 /\ lg.object_geometry_id = o.object_geometry_id
                 /\ lg.public_object_geometry_id = object_geometry_id }

\* the read returns the public geometry as it is
ListedAsPublic(scenario_id, object_geometry_id) ==
    \E o \in get_geometries_by_scenario_id(scenario_id) :
        o.object_geometry_id = object_geometry_id /\ ~o.is_scenario_object

\* an unedited public geometry within the territory is returned as it is
UneditedListedAsPublic ==
    \A scenario_id \in ScenarioIds : \A id \in PublicGeometryIds :
        (/\ WithinTerritory(scenario_id, id)
         /\ NotYetEdited(scenario_id, id)
         /\ \E uo \in urban_objects_data : uo.object_geometry_id = id)
            => ListedAsPublic(scenario_id, id)

\* the read returns one object for the public geometry: under the given id,
\* with is_scenario_object = true and the given address
OneEditedEntry(scenario_id, object_geometry_id, listed_id, address) ==
    \E o \in get_geometries_by_scenario_id(scenario_id) :
        /\ o.object_geometry_id = listed_id
        /\ o.is_scenario_object
        /\ o.address = address
        /\ EntriesFor(scenario_id, object_geometry_id) = {o}

\* C4 (as claimed): a public geometry G within the project territory and not
\* yet edited is returned with is_scenario_object = false; after a put of G
\* with a new address the read returns exactly one object for G, under G's
\* id, with is_scenario_object = true and the new address, and no entry with
\* is_scenario_object = false for G.
C4_EditedListedUnderPublicId ==
    /\ []UneditedListedAsPublic
    /\ [][\A scenario_id \in ScenarioIds : \A id \in PublicGeometryIds :
          \A input \in GeometryPutInputs, user \in Callers :
             (/\ WithinTerritory(scenario_id, id)
              /\ NotYetEdited(scenario_id, id)
              /\ write_object_geometry(input, scenario_id, id, FALSE, user.id))
                 => OneEditedEntry(scenario_id, id, id, input.address)']_vars

\* C4 (amended): a public geometry G within the project territory and not yet
\* edited is returned with is_scenario_object = false; after a put of G with a
\* new address the read returns exactly one object for G, under the id of the
\* new scenario-local row, with is_scenario_object = true and the new address,
\* and no entry with is_scenario_object = false for G.
C4_EditedListedUnderLocalId ==
    /\ []UneditedListedAsPublic
    /\ [][\A scenario_id \in ScenarioIds : \A id \in PublicGeometryIds :
          \A input \in GeometryPutInputs, user \in Callers :
             (/\ WithinTerritory(scenario_id, id)
              /\ NotYetEdited(scenario_id, id)
              /\ write_object_geometry(input, scenario_id, id, FALSE, user.id))
                 => OneEditedEntry(scenario_id, id, seq_geometry, input.address)']_vars

\* a scenario whose read returns a put geometry under a local id that differs
\* from the id of its public source
C4_Witness ==
    \E scenario_id \in ScenarioIds : \E id \in PublicGeometryIds :
        /\ WithinTerritory(scenario_id, id)
        /\ \E o \in EntriesFor(scenario_id, id) :
              /\ o.is_scenario_object
              /\ o.object_geometry_id # id
              /\ o.address \in NewAddresses
              /\ o.geometry \in NewGeometries
        /\ ~ListedAsPublic(scenario_id, id)

\* the scenario hides every public urban object of the geometry and holds no
\* pointer to it: what a put or patch of the geometry leaves
Overridden(scenario_id, object_geometry_id) ==
    /\ \A uo \in urban_objects_data :
          (uo.object_geometry_id = object_geometry_id
              /\ WithinTerritory(scenario_id, object_geometry_id))
             => uo.urban_object_id \in public_urban_object_ids(scenario_id)
    /\ \A r \in SlotRows(scenario_id) : r.public_object_geometry_id # object_geometry_id

\* a successful delete of a scenario geometry
delete_scenario_geometry_step(scenario_id, object_geometry_id) ==
    \E user \in Callers :
        delete_object_geometry_call(scenario_id, object_geometry_id, TRUE, user.id)

\* C5 (as claimed): if scenario S holds a shadow G' that a put or patch made
\* of a public geometry G within the project territory, then after
\* delete_object_geometry(S, G', is_scenario_object = true) the read of S
\* returns G again with is_scenario_object = false.
C5_DeleteShadowRestoresPublic ==
    [][\A scenario_id \in ScenarioIds : \A id \in PublicGeometryIds :
          \A shadow \in GeometryShadows(scenario_id, id) :
             (/\ WithinTerritory(scenario_id, id)
              /\ Overridden(scenario_id, id)
              /\ delete_scenario_geometry_step(scenario_id, shadow.object_geometry_id))
                 => ListedAsPublic(scenario_id, id)']_vars

\* C5 (amended): a put or patch of a public geometry G within the project
\* territory leaves every public urban object of G hidden in S and no pointer
\* to G in S; this lasts as long as S does; and if S then holds a shadow G' of
\* G, after delete_object_geometry(S, G', is_scenario_object = true) the read
\* of S returns neither G' nor G.
C5_DeleteShadowKeepsPublicHidden ==
    /\ [][\A scenario_id \in ScenarioIds : \A id \in PublicGeometryIds :
            (WithinTerritory(scenario_id, id) /\ write_public_geometry_step(scenario_id, id))
                => Overridden(scenario_id, id)']_vars
    /\ [][\A scenario_id \in ScenarioIds : \A id \in PublicGeometryIds :
            (/\ WithinTerritory(scenario_id, id)
             /\ Overridden(scenario_id, id)
             /\ scenario_id \in ScenarioIds')
                => Overridden(scenario_id, id)']_vars
    /\ [][\A scenario_id \in ScenarioIds : \A id \in PublicGeometryIds :
          \A shadow \in GeometryShadows(scenario_id, id) :
             (/\ WithinTerritory(scenario_id, id)
              /\ Overridden(scenario_id, id)
              /\ delete_scenario_geometry_step(scenario_id, shadow.object_geometry_id))
                 => /\ ~ListedAsPublic(scenario_id, id)'
                    /\ \A o \in get_geometries_by_scenario_id(scenario_id)' :
                          ~(o.is_scenario_object
                              /\ o.object_geometry_id = shadow.object_geometry_id)]_vars

\* a scenario left by the delete of a shadow: a scenario geometry id is used
\* up and its row gone, no object was added, the public geometry within the
\* territory is hidden and has no entry in the read
C5_Witness ==
    \E scenario_id \in ScenarioIds : \E id \in PublicGeometryIds :
        /\ WithinTerritory(scenario_id, id)
        /\ \E uo \in urban_objects_data : uo.object_geometry_id = id
        /\ Overridden(scenario_id, id)
        /\ EntriesFor(scenario_id, id) = {}
        /\ \A lg \in projects_object_geometries_data : lg.public_object_geometry_id # id
        /\ Cardinality(projects_object_geometries_data) < seq_geometry
        /\ seq_physical = 0

\* ids of the rows of the scenario tables
LocalGeometryIds == { lg.object_geometry_id : lg \in projects_object_geometries_data }

LocalPhysicalIds == { lp.physical_object_id : lp \in projects_physical_objects_data }

\* the table that is_scenario_object selects holds the id
GeometryPresent(id, is_scenario_object) ==
    IF is_scenario_object THEN id \in LocalGeometryIds ELSE id \in PublicGeometryIds

PhysicalPresent(id, is_scenario_object) ==
    IF is_scenario_object THEN id \in LocalPhysicalIds ELSE id \in PublicPhysicalIds

\* outcomes of put, patch and delete of a geometry for one caller
GeometryOutcomes(scenario_id, id, is_scenario_object, user_id) ==
    { write_object_geometry_outcome(input, scenario_id, id, is_scenario_object, user_id) :
        input \in GeometryPutInputs \cup GeometryPatchInputs }
    \cup { delete_object_geometry_outcome(scenario_id, id, is_scenario_object, user_id) }

\* outcomes of put, patch and delete of a physical object for one caller
PhysicalOutcomes(scenario_id, id, is_scenario_object, user_id) ==
    { write_physical_object_outcome(input, scenario_id, id, is_scenario_object, user_id) :
        input \in PhysicalPutInputs \cup PhysicalPatchInputs }
    \cup { delete_physical_object_outcome(scenario_id, id, is_scenario_object, user_id) }

\* C11: put, patch and delete of a geometry or physical object whose id is
\* absent from the table that is_scenario_object selects end with NotFound
\* for the owner and succeed for no caller, whether or not the other table
\* holds the same id.
C11_AbsentIdNotFound ==
    \A scenario_id \in ScenarioIds, is_scenario_object \in BOOLEAN :
        /\ \A id \in ObjectGeometryIds :
              ~GeometryPresent(id, is_scenario_object) =>
                  /\ GeometryOutcomes(scenario_id, id, is_scenario_object,
                                      OwnerOf(scenario_id)) = {"NotFound"}
                  /\ \A user \in Callers :
                        "ok" \notin GeometryOutcomes(scenario_id, id, is_scenario_object, user.id)
        /\ \A id \in PhysicalObjectIds :
              ~PhysicalPresent(id, is_scenario_object) =>
                  /\ PhysicalOutcomes(scenario_id, id, is_scenario_object,
                                      OwnerOf(scenario_id)) = {"NotFound"}
                  /\ \A user \in Callers :
                        "ok" \notin PhysicalOutcomes(scenario_id, id, is_scenario_object, user.id)

\* a scenario exists while a public geometry id is not the id of a scenario
\* geometry and the id of a scenario physical object is not a public id
C11_Witness ==
    /\ ScenarioIds # {}
    /\ \E id \in PublicGeometryIds : id \notin LocalGeometryIds
    /\ LocalGeometryIds # {}
    /\ \E id \in LocalPhysicalIds : id \notin PublicPhysicalIds

\* the conditions under which put, patch and delete of a geometry are to end
\* with NotFound, AccessDenied or AlreadyExists
GeometryCallRefused(scenario_id, id, is_scenario_object, user_id, with_shadow_check) ==
    \/ scenario_id \notin ScenarioIds
    \/ OwnerOf(scenario_id) # user_id
    \/ ~GeometryPresent(id, is_scenario_object)
    \/ with_shadow_check /\ ~is_scenario_object /\ GeometryShadows(scenario_id, id) # {}

PhysicalCallRefused(scenario_id, id, is_scenario_object, user_id, with_shadow_check) ==
    \/ scenario_id \notin ScenarioIds
    \/ OwnerOf(scenario_id) # user_id
    \/ ~PhysicalPresent(id, is_scenario_object)
    \/ with_shadow_check /\ ~is_scenario_object /\ PhysicalShadows(scenario_id, id) # {}

\* C12: a put, patch or delete of a geometry or physical object that is to end
\* with NotFound (no such scenario, no such id in the selected table),
\* AccessDenied (caller is not the owner) or AlreadyExists (put or patch of
\* a public id the scenario already shadows) writes nothing: in no state can
\* a step of the handler happen for it, so every table stays as it was and
\* the same call meets the same refusal again.
C12_RefusedCallWritesNothing ==
    \A scenario_id \in 1..MaxScenarios, is_scenario_object \in BOOLEAN, user \in Callers :
        /\ \A id \in ObjectGeometryIds :
              /\ GeometryCallRefused(scenario_id, id, is_scenario_object, user.id, TRUE) =>
                    \A input \in GeometryPutInputs \cup GeometryPatchInputs :
                        ~ENABLED write_object_geometry(input, scenario_id, id,
                                                       is_scenario_object, user.id)
              /\ GeometryCallRefused(scenario_id, id, is_scenario_object, user.id, FALSE) =>
                    ~ENABLED delete_object_geometry_call(scenario_id, id,
                                                         is_scenario_object, user.id)
        /\ \A id \in PhysicalObjectIds :
              /\ PhysicalCallRefused(scenario_id, id, is_scenario_object, user.id, TRUE) =>
                    \A input \in PhysicalPutInputs \cup PhysicalPatchInputs :
                        ~ENABLED write_physical_object(input, scenario_id, id,
                                                       is_scenario_object, user.id)
              /\ PhysicalCallRefused(scenario_id, id, is_scenario_object, user.id, FALSE) =>
                    ~ENABLED delete_physical_object_call(scenario_id, id,
                                                         is_scenario_object, user.id)

\* a state in which calls of all three kinds are refused: a scenario shadows a
\* public geometry and a public physical object (AlreadyExists), a caller is
\* not its owner (AccessDenied) and an id is absent (NotFound)
C12_Witness ==
    \E scenario_id \in ScenarioIds :
        /\ \E id \in PublicGeometryIds : \A input \in GeometryPutInputs :
              write_object_geometry_outcome(input, scenario_id, id, FALSE,
                                            OwnerOf(scenario_id)) = "AlreadyExists"
        /\ \E id \in PublicPhysicalIds : \A input \in PhysicalPatchInputs :
              write_physical_object_outcome(input, scenario_id, id, FALSE,
                                            OwnerOf(scenario_id)) = "AlreadyExists"
        /\ \E user \in Callers, id \in PublicGeometryIds :
              delete_object_geometry_outcome(scenario_id, id, FALSE, user.id) = "AccessDenied"
        /\ \E id \in ObjectGeometryIds :
              delete_object_geometry_outcome(scenario_id, id, TRUE,
                                             OwnerOf(scenario_id)) = "NotFound"

\* the statements of a call that write to the database
WriteStatements ==
    {"insert_project", "insert_projects_territory_data", "create_project_base_scenario",
     "insert_intersecting_geometries", "insert_urban_objects", "insert_functional_zones",
     "copy_urban_objects_from_regional_scenario", "update_object_geometry", "insert_object_geometry",
     "insert_urban_objects_of_geometry", "update_urban_objects", "commit"}

\* the committed tables hold the shadow row of the put in progress
ShadowCommitted ==
    \E lg \in committed.projects_object_geometries_data :
        lg.object_geometry_id = call.updated_object_geometry_id

\* the join rows of the connection are rewired to the shadow row of the put
JoinRowsRewired ==
    /\ \A r \in DOMAIN projects_urban_objects_data :
          r.public_object_geometry_id # call.object_geometry_id
    /\ geometry_urban_objects(call.scenario_id, ProjectOf(call.scenario_id).project_id,
                              call.object_geometry_id) = {}

LifecycleStep(statement) ==
    CASE statement = "add_context_territories" -> "context-computed"
      [] statement = "insert_project" -> "created"
      [] statement = "insert_projects_territory_data" -> "territory-persisted"
      [] statement = "create_project_base_scenario" -> "base-scenario-created"
      [] statement \in {"insert_intersecting_geometries", "insert_urban_objects"}
            -> "dataset-bootstrapped"
      [] statement = "insert_functional_zones" -> "zones-copied"
      [] statement = "save_indicators" -> "indicators-requested"
      [] statement \in {"get_project_by_id", "kafka_send", "commit"} -> "ready"

\* the lifecycle steps a sequence of statements has passed, each named once
\* for the run of statements that make it up
RECURSIVE LifecycleSteps(_)
LifecycleSteps(statements) ==
    IF statements = <<>> THEN <<>>
    ELSE LET n == Len(statements)
             before == LifecycleSteps(SubSeq(statements, 1, n - 1))
             step == LifecycleStep(statements[n])
         IN IF before # <<>> /\ before[Len(before)] = step THEN before
            ELSE Append(before, step)

IsPrefix(s, t) == Len(s) <= Len(t) /\ s = SubSeq(t, 1, Len(s))

OrdinaryInProgress == call.op = "add_project" /\ ~call.is_regional

RegionalInProgress == call.op = "add_project" /\ call.is_regional

\* a regional project is created by the insert of its row and the commit alone
RegionalEndsAfterRow ==
    RegionalInProgress =>
        /\ IsPrefix(log, <<"insert_project", "commit">>)
        /\ pc = "return" =>
              /\ log = <<"insert_project", "commit">>
              /\ \A s \in scenarios_data : s.project_id # call.project_id
              /\ projects_object_geometries_data = committed.projects_object_geometries_data
              /\ projects_urban_objects_data = committed.projects_urban_objects_data

C15_IndicatorFailureNotFatal ==
    [][(pc = "save_indicators")
         => (pc' \in {"get_project_by_id", "select_scenario"} /\ Database' = Database)]_vars

\* the project a finished check_project call was about
CheckedProject == CHOOSE p \in projects_data : p.project_id = call.project_id

\* check_project ran on an existing project that the regional rule lets through
CheckProjectRan ==
    /\ call.op = "check_project"
    /\ pc = "idle"
    /\ \E p \in projects_data : p.project_id = call.project_id
    /\ ~(CheckedProject.is_regional /\ ~call.allow_regional)

IsOwner == call.user # NoUser /\ call.user.id = CheckedProject.user_id

IsSuperuser == call.user # NoUser /\ call.user.is_superuser

\* C16: check_project passes for a read exactly when the project is public or
\* the caller is its owner or a superuser, and for an edit exactly when the
\* caller is its owner or a superuser; no user at all never passes for an edit
C16_ReadableEditable ==
    CheckProjectRan =>
        ((response = "ok") <=>
            IF call.to_edit THEN IsOwner \/ IsSuperuser
            ELSE CheckedProject.public \/ IsOwner \/ IsSuperuser)

\* a caller who is a superuser and owns no project
Superuser == [id |-> "u3", is_superuser |-> TRUE]

\* outcomes of add_physical_object_with_geometry and of
\* update_physical_objects_by_function_id for one caller
PhysicalAddOutcomes(scenario_id, user_id) ==
    { add_physical_object_outcome(physical_object, scenario_id, user_id) :
        physical_object \in PhysicalObjectPosts }
    \cup { update_physical_objects_outcome({physical_object}, scenario_id, user_id, function_id) :
             physical_object \in PhysicalObjectPosts, function_id \in FunctionInputs }

\* C17: on a scenario of another user's private project a superuser reads the
\* geometries and gets from every put, patch, delete and add of a geometry or
\* physical object what the owner gets; every edit of any other non-owner
\* ends with AccessDenied
C17_SuperuserAsOwner ==
    \A scenario_id \in ScenarioIds :
        /\ get_geometries_outcome(scenario_id, Superuser.id) = "ok"
        /\ PhysicalAddOutcomes(scenario_id, Superuser.id)
              = PhysicalAddOutcomes(scenario_id, OwnerOf(scenario_id))
        /\ \A is_scenario_object \in BOOLEAN :
              /\ \A id \in ObjectGeometryIds :
                    GeometryOutcomes(scenario_id, id, is_scenario_object, Superuser.id)
                       = GeometryOutcomes(scenario_id, id, is_scenario_object,
                                          OwnerOf(scenario_id))
              /\ \A id \in PhysicalObjectIds :
                    PhysicalOutcomes(scenario_id, id, is_scenario_object, Superuser.id)
                       = PhysicalOutcomes(scenario_id, id, is_scenario_object,
                                          OwnerOf(scenario_id))
        /\ \A user \in Callers :
              (user.id # OwnerOf(scenario_id) /\ ~user.is_superuser) =>
                  /\ PhysicalAddOutcomes(scenario_id, user.id) = {"AccessDenied"}
                  /\ \A is_scenario_object \in BOOLEAN :
                        /\ \A id \in ObjectGeometryIds :
                              GeometryOutcomes(scenario_id, id, is_scenario_object, user.id)
                                 = {"AccessDenied"}
                        /\ \A id \in PhysicalObjectIds :
                              PhysicalOutcomes(scenario_id, id, is_scenario_object, user.id)
                                 = {"AccessDenied"}

\* C18: on a scenario of a regional project put, patch, delete and add of a
\* physical object and update_physical_objects_by_function_id end with
\* NotAllowedInRegionalProject for its owner
C18_RegionalPhysicalRefused ==
    \A scenario_id \in ScenarioIds :
        ProjectOf(scenario_id).is_regional =>
            /\ PhysicalAddOutcomes(scenario_id, OwnerOf(scenario_id))
                  = {"NotAllowedInRegionalProject"}
            /\ \A is_scenario_object \in BOOLEAN, id \in PhysicalObjectIds :
                  PhysicalOutcomes(scenario_id, id, is_scenario_object, OwnerOf(scenario_id))
                     = {"NotAllowedInRegionalProject"}

\* P exists and is an ordinary project
OrdinaryProject(project_id) ==
    \E p \in projects_data : p.project_id = project_id /\ ~p.is_regional

\* R exists and belongs to a regional project
RegionalScenario(scenario_id) ==
    scenario_id \in ScenarioIds /\ ProjectOf(scenario_id).is_regional

\* R exists and is the base scenario of a regional project
RegionalBaseScenario(scenario_id) ==
    /\ RegionalScenario(scenario_id)
    /\ \E s \in scenarios_data : s.scenario_id = scenario_id /\ s.is_based

\* P has a base scenario derived from R
DerivedBaseScenario(project_id, scenario_id) ==
    \E s \in scenarios_data :
        s.project_id = project_id /\ s.parent_id = scenario_id /\ s.is_based

\* a call of create_base_scenario that does not succeed ends with one of the
\* four errors and writes nothing
CreateBaseScenarioFailsClean(project_id, scenario_id) ==
    create_base_scenario_outcome(project_id, scenario_id) # "ok" =>
        /\ create_base_scenario_outcome(project_id, scenario_id)
              \in {"NotFound", "NotAllowedInRegionalProject", "NotAllowedInProjectScenario",
                   "AlreadyExists"}
        /\ ~ENABLED create_base_scenario_call(project_id, scenario_id)

\* C19 as stated: create_base_scenario(P, R) succeeds only if P is an ordinary
\* project, R is the base scenario of a regional project and P has no base
\* scenario derived from R; otherwise it fails without a write
C19_SourceIsRegionalBase ==
    \A project_id \in 1..MaxProjects, scenario_id \in 1..MaxScenarios :
        /\ create_base_scenario_outcome(project_id, scenario_id) = "ok" =>
              /\ OrdinaryProject(project_id)
              /\ RegionalBaseScenario(scenario_id)
              /\ ~DerivedBaseScenario(project_id, scenario_id)
        /\ CreateBaseScenarioFailsClean(project_id, scenario_id)

\* C19 amended: create_base_scenario(P, R) succeeds exactly when P is an
\* ordinary project, R is a scenario of a regional project, base or not, and
\* P has no base scenario derived from R; otherwise it fails with NotFound,
\* NotAllowedInRegionalProject, NotAllowedInProjectScenario or AlreadyExists
\* without a write
C19_SourceIsRegional ==
    \A project_id \in 1..MaxProjects, scenario_id \in 1..MaxScenarios :
        /\ create_base_scenario_outcome(project_id, scenario_id) = "ok" <=>
              /\ OrdinaryProject(project_id)
              /\ RegionalScenario(scenario_id)
              /\ ~DerivedBaseScenario(project_id, scenario_id)
        /\ CreateBaseScenarioFailsClean(project_id, scenario_id)

\* a project has a base scenario derived from a regional scenario that is not
\* a base scenario, and a further call for the same pair is refused
C19_Witness ==
    \E s \in scenarios_data :
        /\ s.is_based
        /\ s.parent_id # NULL
        /\ RegionalScenario(s.parent_id)
        /\ ~RegionalBaseScenario(s.parent_id)
        /\ create_base_scenario_outcome(s.project_id, s.parent_id) = "AlreadyExists"

\* committed scenarios of a project with is_based = true
CommittedBaseScenarios(project_id) ==
    { s \in committed.scenarios_data : s.project_id = project_id /\ s.is_based }

\* C20 as stated: every committed ordinary project has exactly one scenario
\* with is_based = true
C20_ExactlyOneBaseScenario ==
    \A p \in committed.projects_data :
        ~p.is_regional => Cardinality(CommittedBaseScenarios(p.project_id)) = 1

\* C20 amended: every committed ordinary project has at least one scenario
\* with is_based = true, and at most one for each parent regional scenario
C20_OneBaseScenarioPerParent ==
    \A p \in committed.projects_data :
        ~p.is_regional =>
            /\ CommittedBaseScenarios(p.project_id) # {}
            /\ \A s, t \in CommittedBaseScenarios(p.project_id) :
                  s.parent_id = t.parent_id => s = t
            /\ \A s \in CommittedBaseScenarios(p.project_id) :
                  \E r \in committed.scenarios_data : r.scenario_id = s.parent_id

\* create_base_scenario has committed a second base scenario of a project
C20_Witness ==
    \E p \in committed.projects_data :
        /\ ~p.is_regional
        /\ Cardinality(CommittedBaseScenarios(p.project_id)) = 2

\* copy_urban_objects_from_regional_scenario has run in the call in progress
CopyDone ==
    /\ call.op = "create_base_scenario"
    /\ pc = "insert_intersecting_geometries"

\* join rows of the new scenario, and of all the others
RowsOfNew == { r \in DOMAIN projects_urban_objects_data : r.scenario_id = call.base_scenario_id }

RowsOfOthers == { r \in DOMAIN projects_urban_objects_data : r.scenario_id # call.base_scenario_id }

\* join rows of the regional scenario that the mask selects
SelectedRows == DOMAIN regional_urban_objects(call.scenario_id, given_geometry)

\* scenario-local rows inserted since the call began
FreshGeometries == projects_object_geometries_data \ committed.projects_object_geometries_data

FreshPhysicalObjects == projects_physical_objects_data \ committed.projects_physical_objects_data

FreshServices == projects_services_data \ committed.projects_services_data

\* the fresh copies of the scenario-local row with the given id
GeometryCopies(id) ==
    { lg \in FreshGeometries :
        \E old \in committed.projects_object_geometries_data :
            /\ old.object_geometry_id = id
            /\ lg = [old EXCEPT !.object_geometry_id = lg.object_geometry_id,
                                !.geometry = ST_Intersection(old.geometry, given_geometry)] }

PhysicalObjectCopies(id) ==
    { lp \in FreshPhysicalObjects :
        \E old \in committed.projects_physical_objects_data :
            /\ old.physical_object_id = id
            /\ lp = [old EXCEPT !.physical_object_id = lp.physical_object_id] }

ServiceCopies(id) ==
    { ls \in FreshServices :
        \E old \in committed.projects_services_data :
            /\ old.service_id = id
            /\ ls = [old EXCEPT !.service_id = ls.service_id] }

\* the slot of a new join row holds the one fresh copy of the old slot's row
CopiedSlot(new_id, old_id, copies) ==
    IF old_id = NULL THEN new_id = NULL
    ELSE Cardinality(copies) = 1 /\ \A c \in copies : new_id \in c

\* C21: after the copy from the regional scenario no join row of the new
\* scenario references a scenario-local geometry, physical object or service
\* that a join row of another scenario references; every local row it
\* references was inserted by the copy, and every local row of a selected
\* regional join row has exactly one copy, which the new join row made from
\* that regional row references
C21_CopiesAreFresh ==
    CopyDone =>
        /\ \A n \in RowsOfNew :
              /\ n.object_geometry_id # NULL =>
                    /\ n.object_geometry_id \in
                          { lg.object_geometry_id : lg \in FreshGeometries }
                    /\ \A o \in RowsOfOthers : o.object_geometry_id # n.object_geometry_id
              /\ n.physical_object_id # NULL =>
                    /\ n.physical_object_id \in
                          { lp.physical_object_id : lp \in FreshPhysicalObjects }
                    /\ \A o \in RowsOfOthers : o.physical_object_id # n.physical_object_id
              /\ n.service_id # NULL =>
                    /\ n.service_id \in { ls.service_id : ls \in FreshServices }
                    /\ \A o \in RowsOfOthers : o.service_id # n.service_id
        /\ \A r \in SelectedRows :
              r.public_urban_object_id = NULL =>
                  \E n \in RowsOfNew :
                      /\ r.object_geometry_id # NULL =>
                            CopiedSlot(n.object_geometry_id, r.object_geometry_id,
                                       { {lg.object_geometry_id} :
                                           lg \in GeometryCopies(r.object_geometry_id) })
                      /\ CopiedSlot(n.physical_object_id, r.physical_object_id,
                                    { {lp.physical_object_id} :
                                        lp \in PhysicalObjectCopies(r.physical_object_id) })
                      /\ CopiedSlot(n.service_id, r.service_id,
                                    { {ls.service_id} : ls \in ServiceCopies(r.service_id) })
                      /\ n.public_physical_object_id = r.public_physical_object_id
                      /\ n.public_service_id = r.public_service_id

\* the regional scenario held two selected join rows on the same local
\* geometry and physical object, one of them with a local service, and the
\* copy has made one copy of each
C21_Witness ==
    /\ CopyDone
    /\ Cardinality({ r \in SelectedRows : r.object_geometry_id = 1 /\ r.physical_object_id = 1 }) = 2
    /\ Cardinality(GeometryCopies(1)) = 1
    /\ Cardinality(FreshPhysicalObjects) = 1
    /\ Cardinality(FreshServices) = 1

\* geometry of the public urban object a hiding row names
HiddenGeometry(urban_object_id) ==
    LET uo == CHOOSE x \in urban_objects_data : x.urban_object_id = urban_object_id
    IN public_geometry_of(uo.object_geometry_id)

\* join rows of the regional scenario with a public pointer in some slot whose
\* own or public geometry meets the mask
RowsWithPublicSlot ==
    { r \in DOMAIN projects_urban_objects_data :
        /\ r.scenario_id = call.scenario_id
        /\ r.public_urban_object_id = NULL
        /\ \/ ST_Intersects(local_geometry_of(r.object_geometry_id), given_geometry)
           \/ ST_Intersects(public_geometry_of(r.public_object_geometry_id), given_geometry)
        /\ \/ r.public_object_geometry_id # NULL
           \/ r.public_physical_object_id # NULL
           \/ r.public_service_id # NULL }

Bootstrapped == pc = "insert_functional_zones"

\* public geometries fully within the mask that some public urban object uses
PublicGeometriesWithin(mask) ==
    { g \in object_geometries_data :
        /\ ST_Within(g.geometry, mask)
        /\ \E uo \in urban_objects_data : uo.object_geometry_id = g.object_geometry_id }

\* the scenario-local crops the bootstrap of the call has made
BootstrapCrops ==
    { lg \in projects_object_geometries_data :
        /\ lg.public_object_geometry_id \in call.id_mapping
        /\ lg \notin committed.projects_object_geometries_data }

\* C23: after the bootstrap of a scenario with the project territory as mask
\* the merged read of the scenario lists every public geometry that lies
\* within the mask and has a public urban object as a public entry, and the
\* scenario-local cropped copy of every public geometry the bootstrap cropped
C23_BootstrapVisibleInRead ==
    Bootstrapped =>
        /\ given_geometry = project_geometry(ProjectOf(new_scenario_id).project_id)
        /\ \A g \in PublicGeometriesWithin(given_geometry) :
              \E o \in get_geometries_by_scenario_id(new_scenario_id) :
                  /\ o.object_geometry_id = g.object_geometry_id
                  /\ ~o.is_scenario_object
                  /\ o.geometry = g.geometry
        /\ \A k \in objects_intersecting(given_geometry) :
              \E lg \in BootstrapCrops :
                  /\ lg.public_object_geometry_id = k
                  /\ \E o \in get_geometries_by_scenario_id(new_scenario_id) :
                        /\ o.object_geometry_id = lg.object_geometry_id
                        /\ o.is_scenario_object
                        /\ o.geometry = ST_Intersection(PublicGeometry(k).geometry,
                                                        given_geometry)

\* a bootstrap that cropped a geometry and left another one whole in the mask
C23_Witness ==
    /\ Bootstrapped
    /\ PublicGeometriesWithin(given_geometry) # {}
    /\ BootstrapCrops # {}
    /\ \E o \in get_geometries_by_scenario_id(new_scenario_id) : o.is_scenario_object
    /\ \E o \in get_geometries_by_scenario_id(new_scenario_id) : ~o.is_scenario_object

\* the type of the public physical object is building-like
IsBuilding(physical_object_id) ==
    \E po \in physical_objects_data :
        /\ po.physical_object_id = physical_object_id
        /\ po.physical_object_type_id \in DOMAIN physical_object_types_dict
        /\ physical_object_types_dict[po.physical_object_type_id].is_building_name

\* public geometries the bootstrap is to crop: they meet the mask, are not
\* within it, overlap it by a hundredth of their area at least and carry an
\* object that is not a building
GeometriesToCrop(mask) ==
    { g \in object_geometries_data :
        /\ g.geometry \cap mask # {}
        /\ ~(g.geometry \subseteq mask)
        /\ 100 * ST_Area(g.geometry \cap mask) >= ST_Area(g.geometry)
        /\ \E uo \in urban_objects_data :
              /\ uo.object_geometry_id = g.object_geometry_id
              /\ \E po \in physical_objects_data : po.physical_object_id = uo.physical_object_id
              /\ ~IsBuilding(uo.physical_object_id) }

\* the crops are written
CropsInserted == pc \in {"insert_urban_objects", "insert_functional_zones"}

\* the bootstrap made one crop of each geometry it is to crop and no other
CropsExact ==
    CropsInserted =>
        /\ { lg.public_object_geometry_id : lg \in BootstrapCrops } =
              { g.object_geometry_id : g \in GeometriesToCrop(given_geometry) }
        /\ \A a, b \in BootstrapCrops :
              a.public_object_geometry_id = b.public_object_geometry_id => a = b

\* join rows of the new scenario that pair a crop with a building
BuildingOnCrop ==
    { r \in DOMAIN projects_urban_objects_data :
        /\ r.scenario_id = new_scenario_id
        /\ \E lg \in BootstrapCrops : lg.object_geometry_id = r.object_geometry_id
        /\ IsBuilding(r.public_physical_object_id) }

\* C24: the bootstrap crops exactly the public geometries that intersect the
\* mask, are not within it, overlap it by at least 1% of their area and carry
\* an object that is not building-like, and none of its join rows pairs a crop
\* with a building-like physical object, also on a geometry that a building
\* shares with another object
C24_CropsWithoutBuildings ==
    /\ CropsExact
    /\ Bootstrapped => BuildingOnCrop = {}

\* a flat read has merged its buckets
Merged == call.op \in {"get_geometries_by_scenario_id", "get_physical_objects_by_scenario_id"}
          /\ pc = "idle"

\* the entries the two buckets of the read held
MergeInput == { call.public_objects[i] : i \in DOMAIN call.public_objects } \cup
              { call.scenario_objects[i] : i \in DOMAIN call.scenario_objects }

\* C25: the flat merged reads return every entry of the public and of the
\* scenario bucket with its own attributes and flag, once, also when a public
\* and a scenario-local object have the same numeric id, in whatever order
\* the rows come
C25_SameIdBothListed ==
    Merged =>
        /\ \A obj \in MergeInput : \E k \in DOMAIN response : response[k] = obj
        /\ \A k \in DOMAIN response : response[k] \in MergeInput
        /\ \A j, k \in DOMAIN response : response[j] = response[k] => j = k

\* a merge of a public and a scenario-local object with the same id, the
\* scenario-local one fetched before a pointer to the public one
C25_Witness ==
    /\ Merged
    /\ \E i, j \in DOMAIN call.scenario_objects :
          /\ i < j
          /\ call.scenario_objects[i].is_scenario_object
          /\ ~call.scenario_objects[j].is_scenario_object
          /\ EntryId(call.scenario_objects[i]) = EntryId(call.scenario_objects[j])
    /\ \E a, b \in MergeInput : EntryId(a) = EntryId(b) /\ a # b
    /\ \E j, k \in DOMAIN response : j # k /\ EntryId(response[j]) = EntryId(response[k])

\* the nested read has merged its buckets
MergedWithAll == call.op = "get_geometries_with_all_objects_by_scenario_id" /\ pc = "idle"

\* the values of a dictionary
Values(f) == { f[k] : k \in DOMAIN f }

\* C26: in the with_all_objects merged read every group lists every distinct
\* physical object and service of its geometry exactly once, a scenario-local
\* object and a public object with the same numeric id being distinct, so
\* that a scenario-local child is listed also when a public child with its
\* id is in the group
C26_NestedChildrenComplete ==
    MergedWithAll =>
        \A obj \in MergeInput :
            \E k \in DOMAIN response :
                /\ response[k].object_geometry_id = obj.object_geometry_id
                /\ response[k].is_scenario_object = obj.is_scenario_object
                /\ obj.physical_object \in Values(response[k].physical_objects)
                /\ obj.service # NoService => obj.service \in Values(response[k].services)
                /\ \A i, j \in DOMAIN response[k].physical_objects :
                      response[k].physical_objects[i] = response[k].physical_objects[j] => i = j
                /\ \A i, j \in DOMAIN response[k].services :
                      response[k].services[i] = response[k].services[j] => i = j

\* a read of physical objects has returned or raised
FilterDone ==
    /\ pc = "idle"
    /\ call.op \in {"get_geometries_with_all_objects_by_scenario_id",
                    "get_physical_objects_by_scenario_id",
                    "get_context_physical_objects_by_scenario_id"}

\* errors that say that a row was not found
NotFoundErrors == {"NotFound"}

\* C27: a read that is given both a physical object type and a physical
\* object function raises an error that is not the one of a missing row and
\* returns no data
C27_BothFiltersRejected ==
    (/\ FilterDone
     /\ call.physical_object_type_id # NULL
     /\ call.physical_object_function_id # NULL
     /\ get_geometries_outcome(call.scenario_id, call.user_id) = "ok")
        => /\ response.error \notin NotFoundErrors \cup {"none"}
           /\ response.data = {}

\* the function and the functions below it in physical_object_functions_dict
RECURSIVE FunctionSubtree(_)
FunctionSubtree(reached) ==
    LET children == { f \in DOMAIN physical_object_functions_dict :
                        physical_object_functions_dict[f] \in reached }
    IN IF children \subseteq reached THEN reached ELSE FunctionSubtree(reached \cup children)

\* what the read of the call returns when it is given no filter
Unfiltered ==
    IF call.op = "get_geometries_with_all_objects_by_scenario_id"
    THEN get_geometries_with_all_objects_by_scenario_id(call.scenario_id, call.user_id,
                                                        NULL, NULL).data
    ELSE IF call.op = "get_physical_objects_by_scenario_id"
    THEN get_physical_objects_by_scenario_id(call.scenario_id, call.user_id, NULL, NULL).data
    ELSE get_context_physical_objects_by_scenario_id(call.scenario_id, call.user_id,
                                                     call.context, NULL, NULL).data

\* C28: a read that is given a physical object function returns exactly the
\* physical objects it would return unfiltered whose type belongs to the
\* function or to a function below it in the hierarchy
C28_FunctionFilterWithDescendants ==
    (/\ FilterDone
     /\ call.physical_object_type_id = NULL
     /\ call.physical_object_function_id # NULL)
        => response.data =
              { o \in Unfiltered :
                  FunctionOfType(o.physical_object_type_id)
                      \in FunctionSubtree({call.physical_object_function_id}) }

\* C29: the traversal of a hierarchy, downwards or upwards, comes to an end
\* and returns a set of rows, whatever the parent_id column holds, a cycle
\* included
C29_TraversalTerminates == <>(pc = "idle" /\ call.op = "recursive_cte")

\* add_context_territories has filled project.properties
ContextDone == call.op = "add_context_territories" /\ pc = "idle" /\ response.error = "none"

\* the project territory, the territories above it and the territories below it
AncestorsAndDescendants ==
    LET start == { t \in call.territories : t.territory_id = call.territory_id }
        RECURSIVE up(_), down(_)
        up(reached) ==
            LET next == { t \in call.territories : \E r \in reached : r.parent_id = t.territory_id }
            IN IF next \subseteq reached THEN reached ELSE up(reached \cup next)
        down(reached) ==
            LET next == { t \in call.territories : \E r \in reached : t.parent_id = r.territory_id }
            IN IF next \subseteq reached THEN reached ELSE down(reached \cup next)
    IN up(start) \cup down(start)

\* the city level: the highest level of a city among them
CityLevels == { t.level : t \in { x \in AncestorsAndDescendants : x.is_city } }

\* non-city territories a number of levels under the city level that meet a geometry
NonCityAt(below, geometry) ==
    IF CityLevels = {} THEN {}
    ELSE { t \in AncestorsAndDescendants :
             /\ t.level = Highest(CityLevels) - below
             /\ ~t.is_city
             /\ t.geometry \cap geometry # {} }

\* C30: add_context_territories takes the highest level of a city among the
\* ancestors and descendants of the project territory as the city level and
\* puts into 'territories' the names of the non-city territories one level
\* below it that meet the geometry, into 'districts' the names of those two
\* levels below, and into 'context' the ids of the non-city territories one
\* level below that meet the buffered geometry; no city is in 'territories'
\* or 'context'
C30_ContextOfCityLevel ==
    ContextDone =>
        /\ response.territories = { t.name : t \in NonCityAt(1, call.geometry) }
        /\ response.districts = { t.name : t \in NonCityAt(2, call.geometry) }
        /\ response.context = { t.territory_id : t \in NonCityAt(1, ST_Buffer(call.geometry)) }
        /\ \A t \in call.territories :
              t.is_city => t.name \notin response.territories
                           /\ t.territory_id \notin response.context


\* ------------------------------------------------------------------------
\* Creation of an ordinary project
\* ------------------------------------------------------------------------
\* territories of the subtree of a territory, the territory itself included
Subtree(territories, territory_id) ==
    { t \in territories :
        \/ t.territory_id = territory_id
        \/ t.parent_id = territory_id
        \/ \E m \in territories : m.territory_id = t.parent_id /\ m.parent_id = territory_id }

\* an ordinary project is being created on an existing territory whose subtree
\* has no city and whose geometry meets no public geometry
CreationCase ==
    /\ call.op = "add_project"
    /\ ~call.is_regional
    /\ \E t \in call.territories : t.territory_id = call.territory_id
    /\ \A t \in Subtree(call.territories, call.territory_id) : ~t.is_city
    /\ \A g \in object_geometries_data : ~ST_Intersects(g.geometry, call.mask)

\* the errors of the handler's own lookups
CreationErrors == {"NotFound", "NotFoundByParams", "MultipleResultsFound"}

\* what the committed database holds of the project the call has created
Created ==
    /\ \E p \in committed.projects_data :
          /\ p.project_id = call.project_id
          /\ ~p.is_regional
          /\ p.territory_id = call.territory_id
    /\ call.properties.territories = {}
    /\ call.properties.districts = {}
    /\ call.properties.context = {}
    /\ Cardinality({ s \in committed.scenarios_data : s.project_id = call.project_id }) = 1
    /\ \A s \in committed.scenarios_data : s.project_id = call.project_id => s.is_based
    /\ \A r \in DOMAIN committed.projects_urban_objects_data :
          r.scenario_id # call.scenario_id

ScenariosOf(project_id) ==
    { s.scenario_id : s \in { x \in scenarios_data : x.project_id = project_id } }

\* join rows of the scenarios of a project
JoinRowsOf(project_id) ==
    { r \in DOMAIN projects_urban_objects_data : r.scenario_id \in ScenariosOf(project_id) }

\* ids of the scenario-local rows the join rows of a project's scenarios name
ReachableGeometries(project_id) ==
    { r.object_geometry_id : r \in JoinRowsOf(project_id) } \ {NULL}

ReachablePhysicalObjects(project_id) ==
    { r.physical_object_id : r \in JoinRowsOf(project_id) } \ {NULL}

ReachableServices(project_id) ==
    { r.service_id : r \in JoinRowsOf(project_id) } \ {NULL}

\* nothing of the project is left after the step
ProjectGone(project_id) ==
    /\ \A s \in scenarios_data' : s.project_id # project_id
    /\ \A r \in DOMAIN projects_urban_objects_data' : r.scenario_id \notin ScenariosOf(project_id)
    /\ \A lg \in projects_object_geometries_data' :
          lg.object_geometry_id \notin ReachableGeometries(project_id)
    /\ \A lp \in projects_physical_objects_data' :
          lp.physical_object_id \notin ReachablePhysicalObjects(project_id)
    /\ \A ls \in projects_services_data' :
          ls.service_id \notin ReachableServices(project_id)

\* a join row that no scenario of the project holds and that names no
\* scenario-local row reachable from the project
RowOfOthers(r, project_id) ==
    /\ r.scenario_id \notin ScenariosOf(project_id)
    /\ r.object_geometry_id \notin ReachableGeometries(project_id)
    /\ r.physical_object_id \notin ReachablePhysicalObjects(project_id)
    /\ r.service_id \notin ReachableServices(project_id)

\* the scenario-local rows that are not reachable from the project stay
LocalRowsOfOthersKept(project_id) ==
    /\ \A lg \in projects_object_geometries_data :
          lg.object_geometry_id \notin ReachableGeometries(project_id)
             => lg \in projects_object_geometries_data'
    /\ \A lp \in projects_physical_objects_data :
          lp.physical_object_id \notin ReachablePhysicalObjects(project_id)
             => lp \in projects_physical_objects_data'
    /\ \A ls \in projects_services_data :
          ls.service_id \notin ReachableServices(project_id)
             => ls \in projects_services_data'
    /\ projects_object_geometries_data' \subseteq projects_object_geometries_data
    /\ projects_physical_objects_data' \subseteq projects_physical_objects_data
    /\ projects_services_data' \subseteq projects_services_data

\* the join rows of the other projects stay, each with its number of copies
JoinRowsOfOthersKept(project_id) ==
    /\ \A r \in DOMAIN projects_urban_objects_data :
          RowOfOthers(r, project_id) =>
             CopiesIn(r, projects_urban_objects_data') = CopiesIn(r, projects_urban_objects_data)
    /\ \A r \in DOMAIN projects_urban_objects_data' :
          CopiesIn(r, projects_urban_objects_data) > 0

\* the step deletes this project
Deletes(project_id) ==
    /\ \E p \in projects_data : p.project_id = project_id
    /\ \A p \in projects_data' : p.project_id # project_id

ContextLists == SUBSET DOMAIN territories_data

\* what the two context reads return for a scenario, a caller and a context
list_for_context(scenario_id, user_id, context) ==
    <<get_context_geometries_by_scenario_id(scenario_id, user_id, context, NULL, NULL),
      get_context_physical_objects_by_scenario_id(scenario_id, user_id, context, NULL, NULL)>>

\* the union of the geometries of the context territories
ContextUnion(context) == UNION { territories_geometry[t] : t \in context }

\* every returned geometry and physical object is a public one whose geometry
\* intersects the union of the context territories
ContextObjectsArePublic(scenario_id, user_id, context) ==
    LET result == list_for_context(scenario_id, user_id, context) IN
    /\ \A g \in result[1].data :
          \E x \in object_geometries_data :
             /\ x.object_geometry_id = g.object_geometry_id
             /\ ST_Intersects(x.geometry, ContextUnion(context))
    /\ \A o \in result[2].data :
          /\ ~o.is_scenario_object
          /\ \E uo \in urban_objects_data, x \in object_geometries_data :
                /\ uo.physical_object_id = o.physical_object_id
                /\ x.object_geometry_id = uo.object_geometry_id
                /\ ST_Intersects(x.geometry, ContextUnion(context))

\* territories related to the context: its territories, their descendants and
\* their ancestors
RelatedToContext(context) ==
    { t \in DOMAIN territories_data :
        \E c \in context :
           \/ t = c
           \/ territories_data[t] = c
           \/ territories_data[c] = t }

\* the context of the initial public dataset: a function of the context list
\* alone
PublicContextGeometries(context) ==
    { [object_geometry_id |-> g.object_geometry_id, territory_id |-> g.territory_id,
       geometry |-> g.geometry \cap ContextUnion(context)] :
      g \in { x \in InitGeometries :
                /\ x.territory_id \in RelatedToContext(context)
                /\ x.geometry \cap ContextUnion(context) # {}
                /\ \E uo \in InitUrbanObjects : uo.object_geometry_id = x.object_geometry_id } }

PublicContextPhysicalObjects(context) ==
    { [physical_object_id |-> po.physical_object_id,
       physical_object_type_id |-> po.physical_object_type_id,
       is_scenario_object |-> FALSE] :
      po \in { x \in InitPhysicalObjects :
                 \E uo \in InitUrbanObjects, g \in PublicContextGeometries(context) :
                    /\ uo.physical_object_id = x.physical_object_id
                    /\ uo.object_geometry_id = g.object_geometry_id } }

\* C33: in every state, whatever has been put, patched, deleted or added in
\* any scenario, the context reads of a scenario return what the public
\* dataset and the context list alone determine, and every object they return
\* is a public object whose geometry intersects the union of the context
\* territories.
C33_ContextReadsPublicOnly ==
    \A s \in scenarios_data, user \in Callers, context \in ContextLists :
        LET result == list_for_context(s.scenario_id, user.id, context) IN
        /\ result[1].error = "none" => result[1].data = PublicContextGeometries(context)
        /\ result[2].error = "none" => result[2].data = PublicContextPhysicalObjects(context)
        /\ ContextObjectsArePublic(s.scenario_id, user.id, context)

\* a scenario that holds a physical object of its own hides a public urban
\* object that its context read returns
C33_Witness ==
    \E s \in scenarios_data, r \in DOMAIN projects_urban_objects_data, uo \in urban_objects_data :
        /\ r.scenario_id = s.scenario_id
        /\ \E x \in DOMAIN projects_urban_objects_data :
              x.scenario_id = s.scenario_id /\ x.physical_object_id # NULL
        /\ r.public_urban_object_id = uo.urban_object_id
        /\ \E o \in list_for_context(s.scenario_id, ProjectOf(s.scenario_id).user_id,
                                     DOMAIN territories_data)[2].data :
              o.physical_object_id = uo.physical_object_id


\* ------------------------------------------------------------------------
\* Isolation of scenarios
\* ------------------------------------------------------------------------
\* a step that writes objects of a scenario and leaves projects and scenarios
\* as they are
ObjectStep ==
    /\ projects_data' = projects_data
    /\ scenarios_data' = scenarios_data
    /\ <<local_vars>>' # <<local_vars>>

\* the join rows of the scenario are what they were
JoinRowsKept(scenario_id) ==
    \A r \in DOMAIN projects_urban_objects_data \cup DOMAIN projects_urban_objects_data' :
        r.scenario_id = scenario_id =>
           CopiesIn(r, projects_urban_objects_data') = CopiesIn(r, projects_urban_objects_data)

\* the merged read of the scenario returns what it returned
ReadKept(scenario_id) ==
    get_geometries_by_scenario_id(scenario_id)' = get_geometries_by_scenario_id(scenario_id)

\* C34: a step that puts, patches or deletes a geometry or a physical object
\* changes join rows of one scenario only; the join rows of every other
\* scenario and the merged read of every other scenario are what they were.
C34_ScenarioIsolation ==
    [][ObjectStep =>
          \E s \in scenarios_data :
             \A other \in scenarios_data \ {s} :
                JoinRowsKept(other.scenario_id) /\ ReadKept(other.scenario_id)]_vars


\* ------------------------------------------------------------------------
\* Writes of scenario-local rows through a scenario
\* ------------------------------------------------------------------------
\* a join row of the scenario names the scenario geometry
GeometryBelongsTo(scenario_id, object_geometry_id) ==
    \E r \in DOMAIN projects_urban_objects_data :
        r.scenario_id = scenario_id /\ r.object_geometry_id = object_geometry_id

\* a join row of the scenario names the scenario physical object
PhysicalObjectBelongsTo(scenario_id, physical_object_id) ==
    \E r \in DOMAIN projects_urban_objects_data :
        r.scenario_id = scenario_id /\ r.physical_object_id = physical_object_id

\* C35: a put, patch or delete with is_scenario_object = true issued for
\* scenario S for a scenario geometry or physical object that no join row of S
\* names fails with NotFound (whoever calls it), so the row is neither changed
\* nor deleted through S.
C35_ForeignLocalRowsNotFound ==
    \A scenario_id \in ScenarioIds, user \in Callers :
        /\ \A id \in ObjectGeometryIds :
              ~GeometryBelongsTo(scenario_id, id) =>
                 /\ \A input \in GeometryPutInputs \cup GeometryPatchInputs :
                       write_object_geometry_outcome(input, scenario_id, id, TRUE, user.id)
                          \in {"NotFound", "AccessDenied"}
                 /\ delete_object_geometry_outcome(scenario_id, id, TRUE, user.id)
                       \in {"NotFound", "AccessDenied"}
        /\ \A id \in PhysicalObjectIds :
              ~PhysicalObjectBelongsTo(scenario_id, id) =>
                 /\ \A input \in PhysicalPutInputs \cup PhysicalPatchInputs :
                       write_physical_object_outcome(input, scenario_id, id, TRUE, user.id)
                          \in {"NotFound", "AccessDenied"}
                 /\ delete_physical_object_outcome(scenario_id, id, TRUE, user.id)
                       \in {"NotFound", "AccessDenied"}


\* ------------------------------------------------------------------------
\* Join rows of a bootstrap
\* ------------------------------------------------------------------------
\* scenario geometries the call in progress has created
CreatedByCall ==
    projects_object_geometries_data \ committed.projects_object_geometries_data

\* copies of the join row that replaces a public urban object in the new
\* scenario, whatever scenario geometry it names
BootstrapReplacements(uo) ==
    BagCount(projects_urban_objects_data, LAMBDA r :
        /\ r.scenario_id = new_scenario_id
        /\ r.public_urban_object_id = NULL
        /\ r.object_geometry_id # NULL
        /\ r.public_physical_object_id = uo.physical_object_id
        /\ r.public_service_id = uo.service_id
        /\ \E lg \in projects_object_geometries_data :
              /\ lg.object_geometry_id = r.object_geometry_id
              /\ lg.public_object_geometry_id = uo.object_geometry_id)

\* C36: when insert_urban_objects has run for the new scenario S, every join
\* row of S that names a scenario geometry names one created by this call,
\* and S has exactly one public_urban_object_id row and exactly one
\* replacement row for every public urban object of a cropped geometry.
C36_BootstrapRowsOwnCrops ==
    Bootstrapped =>
        /\ \A r \in DOMAIN projects_urban_objects_data :
              (r.scenario_id = new_scenario_id /\ r.object_geometry_id # NULL) =>
                 \E lg \in CreatedByCall : lg.object_geometry_id = r.object_geometry_id
        /\ \A uo \in urban_objects_data :
              uo.object_geometry_id \in call.id_mapping =>
                 /\ CopiesIn(JoinRow(new_scenario_id, uo.urban_object_id,
                                     NULL, NULL, NULL, NULL, NULL, NULL),
                             projects_urban_objects_data) = 1
                 /\ BootstrapReplacements(uo) = 1


\* ------------------------------------------------------------------------
\* Events and indicator requests of a creation
\* ------------------------------------------------------------------------
\* the statements of the call in progress that reach outside the database
Announcements == {"save_indicators", "kafka_send"}

\* the call in progress has sent its indicator request or its event
Announced == \E i \in 1..Len(log) : log[i] \in Announcements

\* the call in progress ends with an error
CallFails == pc # "idle" /\ pc' = "idle" /\ response' # "ok"

\* C37: the indicator request and the ProjectCreated / BaseScenarioCreated
\* event of a creation are issued only after its commit, and a creation that
\* fails has issued neither.
C37_AnnouncedAfterCommit ==
    [][/\ (pc \in Announcements /\ pc' # "idle") => \E j \in 1..Len(log) : log[j] = "commit"
       /\ CallFails => ~Announced]_vars


\* ------------------------------------------------------------------------
\* The two copies of a promotion on one connection
\* ------------------------------------------------------------------------
\* asyncio.gather has returned
Gathered == call.op = "gather" /\ pc = "idle"

\* C38: while the physical objects and the services of a regional scenario are
\* copied, the connection never has statements of both copies to execute at
\* the same moment, and the mappings the two copies return are those of the
\* copies run one after the other, whatever the interleaving.
C38_OneStatementAtATime ==
    call.op = "gather" =>
        /\ Cardinality(call.executing) <= 1
        /\ Gathered =>
              /\ call.map["copy_physical_objects"] =
                    copy_map(call.ids["copy_physical_objects"],
                             Cardinality(GatherPhysicalObjects) + 1)
              /\ call.map["copy_services"] =
                    copy_map(call.ids["copy_services"], Cardinality(GatherServices) + 1)


\* the join rows of one scenario, with their multiplicities
ScenarioJoinRows(scenario_id) ==
    [ r \in { x \in DOMAIN projects_urban_objects_data : x.scenario_id = scenario_id } |->
        projects_urban_objects_data[r] ]

\* number of logical urban objects the merged read of the scenario is built
\* from: the public urban objects it shows as they are and its slot rows
VisibleUrbanObjects(scenario_id) ==
    Cardinality(public_urban_objects_query(scenario_id))
        + BagCardinality([ r \in SlotRows(scenario_id) |-> projects_urban_objects_data[r] ])

\* public urban objects hidden by the step
HiddenByStep(scenario_id) ==
    { uo \in urban_objects_data :
        /\ uo.urban_object_id \in public_urban_object_ids(scenario_id)'
        /\ uo.urban_object_id \notin public_urban_object_ids(scenario_id) }

HidingRowsOfStep(scenario_id) ==
    BagOfAll(LAMBDA uo : JoinRow(scenario_id, uo.urban_object_id,
                                 NULL, NULL, NULL, NULL, NULL, NULL),
             SetToBag(HiddenByStep(scenario_id)))

NewGeometryId ==
    (CHOOSE lg \in projects_object_geometries_data' \ projects_object_geometries_data :
         TRUE).object_geometry_id

NewPhysicalId ==
    (CHOOSE lp \in projects_physical_objects_data' \ projects_physical_objects_data :
         TRUE).physical_object_id

\* the join rows of the scenario after a write of public geometry id: the old
\* rows with the geometry slot redirected, a hiding row and one replacement
\* row for every public urban object hidden by the step
GeometryWriteRows(scenario_id, id) ==
    BagOfAll(LAMBDA r : IF r.public_object_geometry_id = id
                        THEN [r EXCEPT !.object_geometry_id = NewGeometryId,
                                       !.public_object_geometry_id = NULL]
                        ELSE r, ScenarioJoinRows(scenario_id))
        (+) HidingRowsOfStep(scenario_id)
        (+) BagOfAll(LAMBDA uo : JoinRow(scenario_id, NULL, NewGeometryId, NULL, NULL,
                                         NULL, uo.physical_object_id, uo.service_id),
                     SetToBag(HiddenByStep(scenario_id)))

PhysicalWriteRows(scenario_id, id) ==
    BagOfAll(LAMBDA r : IF r.public_physical_object_id = id
                        THEN [r EXCEPT !.physical_object_id = NewPhysicalId,
                                       !.public_physical_object_id = NULL]
                        ELSE r, ScenarioJoinRows(scenario_id))
        (+) HidingRowsOfStep(scenario_id)
        (+) BagOfAll(LAMBDA uo : JoinRow(scenario_id, NULL, NULL, NewPhysicalId, NULL,
                                         uo.object_geometry_id, NULL, uo.service_id),
                     SetToBag(HiddenByStep(scenario_id)))

\* C39: a successful put or patch of a public geometry or physical object in
\* scenario S leaves the number of logical urban objects of the merged read of
\* S as it was: every public urban object the step hides gets exactly one
\* replacement join row with the new local id in the edited slot and the
\* public pointers in the other two, and every join row S had before is kept
\* with at most its edited slot redirected.
C39_WriteKeepsUrbanObjectCount ==
    [][\A scenario_id \in ScenarioIds :
          /\ \A id \in PublicGeometryIds :
                (seq_geometry' # seq_geometry /\ write_public_geometry_step(scenario_id, id)) =>
                    /\ VisibleUrbanObjects(scenario_id)' = VisibleUrbanObjects(scenario_id)
                    /\ ScenarioJoinRows(scenario_id)' = GeometryWriteRows(scenario_id, id)
          /\ \A id \in PublicPhysicalIds :
                (seq_physical' # seq_physical /\ write_public_physical_step(scenario_id, id)) =>
                    /\ VisibleUrbanObjects(scenario_id)' = VisibleUrbanObjects(scenario_id)
                    /\ ScenarioJoinRows(scenario_id)' = PhysicalWriteRows(scenario_id, id)]_vars

\* a scenario in which a write of a public geometry has hidden a public urban
\* object and replaced it, and a write of a public physical object has
\* redirected a join row the scenario already had
C39_Witness ==
    \E scenario_id \in ScenarioIds : \E uo \in urban_objects_data :
        /\ uo.urban_object_id \in public_urban_object_ids(scenario_id)
        /\ \E r \in SlotRows(scenario_id) :
              /\ r.public_service_id = uo.service_id
              /\ \E lg \in projects_object_geometries_data :
                    /\ lg.object_geometry_id = r.object_geometry_id
                    /\ lg.public_object_geometry_id = uo.object_geometry_id
              /\ \E lp \in projects_physical_objects_data :
                    /\ lp.physical_object_id = r.physical_object_id
                    /\ lp.public_physical_object_id = uo.physical_object_id


\* a read with all objects that was given a physical object type has returned
TypeFilterDone ==
    /\ pc = "idle"
    /\ call.op \in {"get_geometries_with_all_objects_by_scenario_id",
                    "get_context_geometries_with_all_objects_by_scenario_id"}
    /\ call.physical_object_type_id # NULL
    /\ response.error = "none"

\* the physical objects the read of the call returns when it is given no
\* physical object type
WithoutTypeFilter ==
    IF call.op = "get_geometries_with_all_objects_by_scenario_id"
    THEN get_geometries_with_all_objects_by_scenario_id(call.scenario_id, call.user_id,
                                                        NULL, NULL).data
    ELSE get_context_geometries_with_all_objects_by_scenario_id(
             call.scenario_id, call.user_id, call.context, NULL, call.service_type_id,
             NULL).data

\* C40: given a physical object type, get_geometries_with_all_objects and its
\* context variant return exactly the physical objects of that type among
\* those they return without the type filter: every returned object, public
\* or scenario-local, has the type, and an object of the type is returned
\* whatever the scenario-local tables hold and whatever the service type
\* filter is.
C40_TypeFilterByTypeAlone ==
    TypeFilterDone =>
        response.data = { o \in WithoutTypeFilter :
                            o.physical_object_type_id = call.physical_object_type_id }

====
